---- MODULE Spec2Model ----
(***************************************************************************)
(* Command parsing and message moderation core of server/chat.ts.         *)
(*                                                                         *)
(* Text is modelled as a sequence of one-character strings, so that the   *)
(* tokenizer, the escapes and the length weighting are computed as the    *)
(* code computes them.  The specifications that share the module:         *)
(*   Spec         the dispatcher: Chat.parse, CommandContext.parse/run,   *)
(*                canBroadcast/runBroadcast, canTalk, sendChatMessage     *)
(*   SpecDeferred the dispatcher with handlers that return Promises       *)
(*   SpecBroadcast the dispatcher with three broadcasts a few seconds     *)
(*                apart                                                    *)
(*   SpecTalk     the dispatcher with plain chat around slow mode         *)
(*   SpecResolve  CommandContext.parseCommand applied to bounded inputs   *)
(*   SpecFilter   Chat.filter applied to bounded filter chains            *)
(*   SpecLength   the length check of canTalk applied to bounded texts    *)
(***************************************************************************)
EXTENDS Integers, Sequences, FiniteSets, TLC

(***************************************************************************)
(* Program constants (server/chat.ts:95-103)                               *)
(***************************************************************************)
MAX_MESSAGE_LENGTH == 300
BROADCAST_COOLDOWN == 20000
MESSAGE_COOLDOWN == 300000
MAX_PARSE_RECURSION == 10
VALID_COMMAND_TOKENS == <<"/", "!">>
BROADCAST_TOKEN == <<"!">>

(***************************************************************************)
(* Bounds of the model                                                     *)
(***************************************************************************)
\* cut-off of the evaluation of nested parseCommand calls (the code makes
\* at most one; only a changed parseCommand can reach the cut-off)
MaxNest == 3

(***************************************************************************)
(* JavaScript string primitives on sequences of characters                 *)
(***************************************************************************)
LowerLetters == {"a", "b", "c", "d", "e", "f", "g", "h", "i", "j", "k", "l", "m",
                 "n", "o", "p", "q", "r", "s", "t", "u", "v", "w", "x", "y", "z"}
UpperSeq == <<"A", "B", "C", "D", "E", "F", "G", "H", "I", "J", "K", "L", "M", "N", "O", "P", "Q", "R", "S", "T", "U", "V", "W", "X", "Y", "Z">>
LowerSeq == <<"a", "b", "c", "d", "e", "f", "g", "h", "i", "j", "k", "l", "m", "n", "o", "p", "q", "r", "s", "t", "u", "v", "w", "x", "y", "z">>
UpperLetters == {UpperSeq[i] : i \in 1..26}
Digits == {"0", "1", "2", "3", "4", "5", "6", "7", "8", "9"}
Alnum == LowerLetters \cup UpperLetters \cup Digits
Whitespace == {" ", "\n", "\t"}
\* U+FDFD, the ligature that canTalk weights as 11 characters
FDFD == "U+FDFD"

SetMin(s) == CHOOSE x \in s : \A y \in s : x <= y
SetMax(s) == CHOOSE x \in s : \A y \in s : x >= y

\* String.prototype.charAt: '' when the index is out of range
CharAt(s, i) == IF i >= 0 /\ i < Len(s) THEN <<s[i + 1]>> ELSE <<>>
\* String.prototype.slice(a) and slice(a, b) for 0 <= a, 0 <= b
SliceFrom(s, a) == IF a >= Len(s) THEN <<>> ELSE SubSeq(s, a + 1, Len(s))
Slice(s, a, b) ==
    LET e == IF b > Len(s) THEN Len(s) ELSE b
    IN IF a >= e THEN <<>> ELSE SubSeq(s, a + 1, e)
\* String.prototype.slice(0, -n)
DropLast(s, n) == IF Len(s) <= n THEN <<>> ELSE SubSeq(s, 1, Len(s) - n)
\* String.prototype.indexOf for a single character: -1 when absent
IndexOf(s, c) ==
    LET hits == {i \in 1..Len(s) : s[i] = c}
    IN IF hits = {} THEN -1 ELSE SetMin(hits) - 1
StartsWith(s, p) == Len(s) >= Len(p) /\ SubSeq(s, 1, Len(p)) = p
EndsWith(s, p) == Len(s) >= Len(p) /\ SubSeq(s, Len(s) - Len(p) + 1, Len(s)) = p
\* String.prototype.trim
Trim(s) ==
    LET keep == {i \in 1..Len(s) : s[i] \notin Whitespace}
    IN IF keep = {} THEN <<>> ELSE SubSeq(s, SetMin(keep), SetMax(keep))
LowerChar(c) ==
    IF c \in UpperLetters THEN LowerSeq[CHOOSE i \in 1..26 : UpperSeq[i] = c] ELSE c
\* String.prototype.toLowerCase
ToLower(s) == [i \in 1..Len(s) |-> LowerChar(s[i])]
\* String.prototype.includes for a character (or '') in a string
Includes(s, ch) == ch = <<>> \/ \E i \in 1..Len(s) : <<s[i]>> = ch
\* /[^A-Za-z0-9]/.test(ch) and /[^A-Za-z0-9 ]/.test(ch) for ch = charAt(..)
NonAlnum(ch) == ch # <<>> /\ ch[1] \notin Alnum
NonAlnumSpace(ch) == ch # <<>> /\ ch[1] \notin (Alnum \cup {" "})
\* /[a-z0-9]/.test(ch)
LowerAlnum(ch) == ch # <<>> /\ ch[1] \in (LowerLetters \cup Digits)

(***************************************************************************)
(* Registry nodes: the values a ChatCommands table can hold                *)
(* (server/chat.ts:51-56) and the values a lookup can produce              *)
(***************************************************************************)
Undef == [kind |-> "undefined", id |-> "", to |-> <<>>, n |-> 0, table |-> <<>>]
\* a handler function
Fn(id) == [kind |-> "handler", id |-> id, to |-> <<>>, n |-> 0, table |-> <<>>]
\* a string entry: an alias
Alias(to) == [kind |-> "string", id |-> "", to |-> to, n |-> 0, table |-> <<>>]
\* an array of n help strings
HelpLines(n) == [kind |-> "array", id |-> "", to |-> <<>>, n |-> n, table |-> <<>>]
\* a nested command table
Sub(table) == [kind |-> "object", id |-> "", to |-> <<>>, n |-> 0, table |-> table]
\* a number (the length of an array)
Num(n) == [kind |-> "number", id |-> "", to |-> <<>>, n |-> n, table |-> <<>>]

\* typeof x === 'object' for a non-null x: tables and arrays
IsObject(node) == node.kind \in {"object", "array"}
\* JavaScript truthiness of a looked-up value
Truthy(node) ==
    CASE node.kind = "undefined" -> FALSE
      [] node.kind = "string" -> node.to # <<>>
      [] node.kind = "number" -> node.n # 0
      [] OTHER -> TRUE

\* the index keys "0" .. "n-1" of an array of n <= 10 elements
IndexKeys(n) == {<<<<"0", "1", "2", "3", "4", "5", "6", "7", "8", "9">>[i + 1]>> : i \in 0..(n - 1)}
\* `key in cur`
HasKey(cur, key) ==
    CASE cur.kind = "object" -> key \in DOMAIN cur.table
      [] cur.kind = "array" -> key = <<"l", "e", "n", "g", "t", "h">> \/ key \in IndexKeys(cur.n)
      [] OTHER -> FALSE
\* `cur[key]`
Get(cur, key) ==
    CASE ~HasKey(cur, key) -> Undef
      [] cur.kind = "object" -> cur.table[key]
      [] key = <<"l", "e", "n", "g", "t", "h">> -> Num(cur.n)
      [] OTHER -> Alias(<<"-">>)

(***************************************************************************)
(* Config.groups, in iteration order: group symbol and group id            *)
(***************************************************************************)
ConfigGroups == << [symbol |-> <<"+">>, id |-> <<"v", "o", "i", "c", "e">>],
                   [symbol |-> <<"@">>, id |-> <<"m", "o", "d">>] >>

(***************************************************************************)
(* CommandContext.parseCommand (server/chat.ts:520-620)                    *)
(***************************************************************************)
\* the `return null` of parseCommand; nested counts the re-invocations made
NullCmd(nest) ==
    [null |-> TRUE, cmd |-> <<>>, fullCmd |-> <<>>, cmdToken |-> <<>>,
     target |-> <<>>, handler |-> Undef, nested |-> nest]
Descriptor(cmd, fullCmd, cmdToken, target, handler, nest) ==
    [null |-> FALSE, cmd |-> cmd, fullCmd |-> fullCmd, cmdToken |-> cmdToken,
     target |-> target, handler |-> handler, nested |-> nest]

\* the hardcoded commands, chat.ts:525-534
Hardcoded(message) ==
    CASE StartsWith(message, <<">", ">", " ">>) -> <<"/", "e", "v", "a", "l", " ">> \o SliceFrom(message, 3)
      [] StartsWith(message, <<">", ">", ">", " ">>) -> <<"/", "e", "v", "a", "l", "b", "a", "t", "t", "l", "e", " ">> \o SliceFrom(message, 4)
      [] StartsWith(message, <<"/", "m", "e">>) /\ NonAlnumSpace(CharAt(message, 3)) ->
            <<"/", "m", "e", "e", " ">> \o SliceFrom(message, 3)
      [] StartsWith(message, <<"/", "M", "E">>) /\ NonAlnumSpace(CharAt(message, 3)) ->
            <<"/", "M", "E", "E", " ">> \o SliceFrom(message, 3)
      [] OTHER -> message

\* the rewrite that the permission-group shorthand fullCmd selects for the
\* group at index i of Config.groups, or <<>> when none does (chat.ts:595-609)
GroupRewrite(i, fullCmd, target) ==
    LET g == ConfigGroups[i].symbol
        groupid == ConfigGroups[i].id
    IN CASE fullCmd = groupid -> <<"/", "p", "r", "o", "m", "o", "t", "e", " ">> \o target \o <<",", " ">> \o g
         [] fullCmd = <<"g", "l", "o", "b", "a", "l">> \o groupid -> <<"/", "g", "l", "o", "b", "a", "l", "p", "r", "o", "m", "o", "t", "e", " ">> \o target \o <<",", " ">> \o g
         [] fullCmd \in {<<"d", "e">> \o groupid, <<"u", "n">> \o groupid,
                         <<"g", "l", "o", "b", "a", "l", "d", "e">> \o groupid, <<"d", "e", "g", "l", "o", "b", "a", "l">> \o groupid} ->
                <<"/", "d", "e", "m", "o", "t", "e", " ">> \o target
         [] fullCmd = <<"r", "o", "o", "m">> \o groupid -> <<"/", "r", "o", "o", "m", "p", "r", "o", "m", "o", "t", "e", " ">> \o target \o <<",", " ">> \o g
         [] fullCmd = <<"f", "o", "r", "c", "e", "r", "o", "o", "m">> \o groupid ->
                <<"/", "f", "o", "r", "c", "e", "r", "o", "o", "m", "p", "r", "o", "m", "o", "t", "e", " ">> \o target \o <<",", " ">> \o g
         [] fullCmd \in {<<"r", "o", "o", "m", "d", "e">> \o groupid, <<"d", "e", "r", "o", "o", "m">> \o groupid,
                         <<"r", "o", "o", "m", "u", "n">> \o groupid} ->
                <<"/", "r", "o", "o", "m", "d", "e", "m", "o", "t", "e", " ">> \o target
         [] OTHER -> <<>>

\* variant of FollowAlias: the entry itself, without the second lookup
FollowAliasNot(cur, h0) == h0
\* chat.ts:565-567: a string entry is looked up once more in the same table
\* ("in case someone messed up, don't loop")
FollowAlias(cur, h0) == IF h0.kind = "string" THEN Get(cur, h0.to) ELSE h0
\* variant of RedirectsToHelp: the redirect without the test of `recursing`
RedirectsAlways(h0, recursing) == h0.kind = "array"
\* chat.ts:568: an array entry redirects to the help command, unless recursing
RedirectsToHelp(h0, recursing) == h0.kind = "array" /\ ~recursing
\* chat.ts:593: the group shorthands are tried only when not recursing
TriesGroups(h1, recursing) == ~Truthy(h1) /\ ~recursing

RECURSIVE ParseCommandR(_, _, _, _)
RECURSIVE DescendLoop(_, _, _, _, _, _, _, _)

\* chat.ts:586-619: the `default` entry, the group shorthands, the result
FinishCommand(commands, cur, h, cmd, target, fullCmd, cmdToken, recursing, nest) ==
    LET dflt == Get(cur, <<"d", "e", "f", "a", "u", "l", "t">>)
        h1 == IF ~Truthy(h) /\ Truthy(dflt)
              THEN (IF dflt.kind = "string" THEN Get(cur, dflt.to) ELSE dflt)
              ELSE h
        hits == {i \in 1..Len(ConfigGroups) : GroupRewrite(i, fullCmd, target) # <<>>}
    IN IF TriesGroups(h1, recursing) /\ hits # {}
       THEN ParseCommandR(commands, GroupRewrite(SetMin(hits), fullCmd, target),
                          TRUE, nest + 1)
       ELSE Descriptor(cmd, fullCmd, cmdToken, target, h1, nest)

\* chat.ts:559-584: one iteration of the do-while loop over the tables
DescendLoop(commands, cur, cmd, target, fullCmd, cmdToken, recursing, nest) ==
    LET h0 == IF HasKey(cur, cmd) THEN Get(cur, cmd) ELSE Undef
        redirect == RedirectsToHelp(h0, recursing)
        h == FollowAlias(cur, h0)
        spaceIndex == IndexOf(target, " ")
        cmd2 == IF spaceIndex > 0 THEN ToLower(Slice(target, 0, spaceIndex))
                ELSE ToLower(target)
        target2 == IF spaceIndex > 0 THEN SliceFrom(target, spaceIndex + 1) ELSE <<>>
    IN IF redirect
       THEN ParseCommandR(commands, cmdToken \o <<"h", "e", "l", "p", " ">> \o DropLast(fullCmd, 4),
                          TRUE, nest + 1)
       ELSE IF Truthy(h) /\ IsObject(h)
       THEN DescendLoop(commands, h, cmd2, target2, fullCmd \o <<" ">> \o cmd2,
                        cmdToken, recursing, nest)
       ELSE FinishCommand(commands, cur, h, cmd, target, fullCmd, cmdToken,
                          recursing, nest)

\* parseCommand(message, recursing) over the table `commands` (Chat.commands)
ParseCommandR(commands, message0, recursing, nest) ==
    IF nest > MaxNest \/ Trim(message0) = <<>> THEN NullCmd(nest)
    ELSE LET message == Hardcoded(message0)
             cmdToken == CharAt(message, 0)
             messageSpaceIndex == IndexOf(message, " ")
             cmd0 == IF messageSpaceIndex > 0
                     THEN ToLower(Slice(message, 1, messageSpaceIndex))
                     ELSE ToLower(SliceFrom(message, 1))
             target == IF messageSpaceIndex > 0
                       THEN Trim(SliceFrom(message, messageSpaceIndex + 1))
                       ELSE <<>>
             cmd == IF EndsWith(cmd0, <<",">>) THEN DropLast(cmd0, 1) ELSE cmd0
         IN IF ~Includes(VALID_COMMAND_TOKENS, cmdToken) THEN NullCmd(nest)
            ELSE IF cmdToken = CharAt(message, 1) THEN NullCmd(nest)
            ELSE IF cmdToken = BROADCAST_TOKEN /\ NonAlnum(CharAt(message, 1))
            THEN NullCmd(nest)
            ELSE DescendLoop(commands, Sub(commands), cmd, target, cmd, cmdToken,
                             recursing, nest)

ParseCommand(commands, message) == ParseCommandR(commands, message, FALSE, 0)

(***************************************************************************)
(* Command tables.  ChatCommands is Chat.commands as the plugins under     *)
(* src/ contribute to it (chat-plugins/othermetas.ts:42-75,180-276 and the *)
(* chat-log plugin, commands at 721-771), with the core /help command and  *)
(* the handlers of the dispatcher model.                                   *)
(***************************************************************************)
ChatCommands ==
    <<"h", "e", "l", "p">> :> Fn("help") @@
    <<"o", "m">> :> Alias(<<"o", "t", "h", "e", "r", "m", "e", "t", "a", "s">>) @@
    <<"o", "t", "h", "e", "r", "m", "e", "t", "a", "s">> :> Fn("othermetas") @@
    <<"o", "t", "h", "e", "r", "m", "e", "t", "a", "s", "h", "e", "l", "p">> :> HelpLines(2) @@
    <<"o", "r", "b">> :> Alias(<<"s", "t", "o", "n", "e">>) @@
    <<"s", "t", "o", "n", "e">> :> Fn("stone") @@
    <<"s", "t", "o", "n", "e", "h", "e", "l", "p">> :> HelpLines(1) @@
    <<"c", "h", "a", "t", "l", "o", "g">> :> Fn("chatlog") @@
    <<"s", "l">> :> Alias(<<"s", "e", "a", "r", "c", "h", "l", "o", "g", "s">>) @@
    <<"s", "e", "a", "r", "c", "h", "l", "o", "g", "s">> :> Fn("searchlogs") @@
    <<"s", "e", "a", "r", "c", "h", "l", "o", "g", "s", "h", "e", "l", "p">> :> Fn("searchlogshelp") @@
    <<"p", "r", "o", "m", "o", "t", "e">> :> Fn("promote") @@
    <<"m", "e">> :> Fn("me") @@
    <<"m", "e", "e">> :> Fn("me") @@
    <<"j", "o", "i", "n">> :> Fn("join") @@
    <<"p", "l", "u", "g">> :> Fn("plug") @@
    <<"l", "o", "o", "p">> :> Fn("loop") @@ <<"l", "a", "t", "e", "r">> :> Fn("later") @@ <<"s", "l", "o", "w">> :> Fn("slow")

\* a table with a nested command table, a `default` entry and aliases in it
NestedCommands ==
    <<"h", "e", "l", "p">> :> Fn("help") @@
    <<"t", "o", "u", "r">> :> Sub(<<"n", "e", "w">> :> Fn("tournew") @@
                   <<"c", "r", "e", "a", "t", "e">> :> Alias(<<"n", "e", "w">>) @@
                   <<"d", "e", "f", "a", "u", "l", "t">> :> Alias(<<"n", "e", "w">>) @@
                   <<"n", "e", "w", "h", "e", "l", "p">> :> HelpLines(1)) @@
    <<"t">> :> Alias(<<"t", "o", "u", "r">>) @@
    <<"r", "o", "o", "m", "d", "e", "m", "o", "t", "e">> :> Fn("roomdemote")

\* a table with the shapes a careless plugin can register
OddCommands ==
    <<"h", "e", "l", "p">> :> HelpLines(1) @@
    <<"a">> :> Alias(<<"b">>) @@
    <<"b">> :> Alias(<<"c">>) @@
    <<"c">> :> Fn("c") @@
    <<"x">> :> Alias(<<"m", "i", "s", "s", "i", "n", "g">>) @@
    <<"h">> :> Alias(<<"h", "e", "l", "p">>) @@
    <<"v", "o", "i", "c", "e">> :> Alias(<<"n", "o", "v", "o", "i", "c", "e">>) @@
    <<"d", "e", "m", "o", "t", "e">> :> HelpLines(2)

Registries == [plugins |-> ChatCommands, nested |-> NestedCommands, odd |-> OddCommands]

\* the inputs of the resolver: command symbol, verb as typed, target text
ResolveTokens == {<<"/">>, <<"!">>}
ResolveVerbs ==
    {<<"h", "e", "l", "p">>, <<"o", "m">>, <<"o", "t", "h", "e", "r", "m", "e", "t", "a", "s">>, <<"o", "t", "h", "e", "r", "m", "e", "t", "a", "s", "h", "e", "l", "p">>, <<"o", "r", "b">>, <<"s", "t", "o", "n", "e">>, <<"S", "T", "O", "N", "E">>,
     <<"s", "t", "o", "n", "e", ",">>, <<"s", "t", "o", "n", "e", "h", "e", "l", "p">>, <<"s", "l">>, <<"t", "o", "u", "r">>, <<"t">>, <<"a">>, <<"b">>, <<"x">>, <<"h">>,
     <<"v", "o", "i", "c", "e">>, <<"d", "e", "v", "o", "i", "c", "e">>, <<"r", "o", "o", "m", "u", "n", "m", "o", "d">>, <<"g", "l", "o", "b", "a", "l", "m", "o", "d">>, <<"n", "o", "s", "u", "c", "h">>, <<"d", "e", "f", "a", "u", "l", "t">>, <<>>}
ResolveTargets == {<<>>, <<"x">>, <<"n", "e", "w", " ", "y">>, <<"h", "e", "l", "p">>, <<"n", "o", "p", "e", " ", " ", "z">>, <<"0">>, <<"l", "e", "n", "g", "t", "h", " ", "q">>}
\* inputs that are not of the form symbol-verb-target
RawInputs == {<<"!", "!", "t", "e", "s", "t">>, <<"/", "/", "x">>, <<" ", "/", "s", "t", "o", "n", "e">>, <<">", ">", " ", "1">>, <<">", ">", ">", " ", "1">>, <<"/", "m", "e", "'", "s">>, <<"/", "M", "E", "!">>,
              <<"h", "e", "l", "l", "o">>, <<" ", " ">>, <<"!", " ", "s", "t", "o", "n", "e">>, <<"!", "@">>, <<"/">>}

CommandText(tok, verb, target) ==
    tok \o verb \o (IF target = <<>> THEN <<>> ELSE <<" ">> \o target)

VARIABLES
    \* the dispatcher
    stack,   \* the contexts of the running top-level parse, outermost first
    users,   \* user.lastMessage, user.lastMessageTime
    rooms,   \* room.lastBroadcast, room.lastBroadcastTime
    now,     \* Date.now()
    out,     \* what the running (or last) top-level parse has sent so far
    served,  \* top-level messages received so far
    pending, \* the continuations that parse() has attached to deferred values
    granted, \* the broadcasts granted in rooms so far: room, text, time, user
    said,    \* when canTalk last accepted a message of each user in each room
    told,    \* the last message of each user that canTalk accepted in a room
    banwords, \* room.settings.banwords and room.banwordRegex of each room
    \* parseCommand applied to one input
    rsIn,    \* the input and whether parseCommand has been applied to it
    rsOut,   \* the descriptor parseCommand returned
    rsRef,   \* for an alias input, the descriptor of the aliased verb
    \* Chat.filter applied to one message under one filter chain
    flIn,    \* the chain, the original message, and the loop's position
    flMessage, \* the in-flight message
    flSeen,  \* the message each filter called so far was given
    flResult, \* the value returned, once the call has returned
    \* canTalk applied to one message
    lnIn,    \* the user and the message's composition
    lnOut,   \* canTalk's result
    \* the plugins
    plugins, \* Chat.commands, the properties of the handler functions, the
             \* plugin files loaded so far, and the handler invoked last
    \* PatternTester.test applied to one text
    ptIn,    \* the text and whether test has been applied to it
    ptOut,   \* the value test returned
    \* canHTML applied to one content
    htIn,    \* the content, as pieces, and whether canHTML has been applied
    htOut,   \* the value canHTML returned
    \* the moderation log
    modlog   \* Modlog's two maps of streams, the destroy() calls that wait
             \* for the end of a stream, the state of a destroyAll() call, and
             \* the outcome of the last write()

dispatchVars == <<stack, users, rooms, now, out, served, pending, granted, said, told,
                  banwords>>
filterVars == <<flIn, flMessage, flSeen, flResult>>
lengthVars == <<lnIn, lnOut>>
resolveVars == <<rsIn, rsOut, rsRef>>
pluginVars == <<plugins>>
patternVars == <<ptIn, ptOut>>
htmlVars == <<htIn, htOut>>
modlogVars == <<modlog>>
utilityVars == <<patternVars, htmlVars, modlogVars>>

NoInput == [phase |-> "idle", shape |-> "raw", reg |-> "plugins", tok |-> <<>>,
            verb |-> <<>>, target |-> <<>>, msg |-> <<>>]

\* every input of the resolver: a table, and a text of one of the two shapes
ResolveInputs ==
    {[phase |-> "ready", shape |-> "command", reg |-> reg, tok |-> tok,
      verb |-> verb, target |-> target, msg |-> CommandText(tok, verb, target)] :
        reg \in DOMAIN Registries, tok \in ResolveTokens,
        verb \in ResolveVerbs, target \in ResolveTargets}
    \cup
    {[phase |-> "ready", shape |-> "raw", reg |-> reg, tok |-> <<>>,
      verb |-> <<>>, target |-> <<>>, msg |-> msg] :
        reg \in DOMAIN Registries, msg \in RawInputs}

\* the verb is registered in the top-level table as a string alias
IsAliasInput(in) ==
    /\ in.shape = "command"
    /\ in.verb \in DOMAIN Registries[in.reg]
    /\ Registries[in.reg][in.verb].kind = "string"
AliasedVerb(in) == Registries[in.reg][in.verb].to

(***************************************************************************)
(* The collaborators of the dispatcher: users, rooms, the clock            *)
(***************************************************************************)
\* alice: a named, voiced regular user; bob and carol: named users without
\* rank; zarel: an administrator; guest: a user who has not chosen a name
Users == {"alice", "bob", "carol", "zarel", "guest"}
\* chat rooms; NoRoom is the `null` room of a PM or console context
Rooms == {"lobby", "tech", "hall"}
NoRoom == ""
NoUser == ""

\* user.named
UserNamed(u) == u # "guest"
\* user.can(permission, null, room): the administrator holds every
\* capability, the voiced user holds 'show' in the rooms
UserCan(u, permission, room) ==
    \/ u = "zarel"
    \/ u = "alice" /\ permission = "show"
\* user.namelocked || user.locked
UserLocked(u) == FALSE
\* user.id in room.users
InRoom(u, room) ==
    \/ room = "lobby" /\ u \in {"alice", "carol", "zarel", "guest"}
    \/ room = "tech" /\ u \in {"alice", "bob", "carol", "zarel"}
    \/ room = "hall" /\ u \in {"alice", "carol", "zarel"}
\* room.isMuted(user)
RoomMuted(room, u) == FALSE
\* room.settings: the tech room is in slow mode, one message in 30 seconds,
\* and the hall is a high traffic room
RoomSettings(room) ==
    [isHelp |-> FALSE, modchat |-> FALSE,
     slowchat |-> IF room = "tech" THEN 30 ELSE 0, highTraffic |-> room = "hall"]
\* the rooms without the high traffic setting
PlainRooms == {room \in Rooms : ~RoomSettings(room).highTraffic}
\* room.parent: the tech room is a sub-room of the lobby
RoomParent(room) == IF room = "tech" THEN "lobby" ELSE NoRoom
\* user.name
UserName(u) ==
    CASE u = "alice" -> <<"a", "l", "i", "c", "e">> [] u = "bob" -> <<"b", "o", "b">> [] u = "carol" -> <<"c", "a", "r", "o", "l">>
      [] u = "zarel" -> <<"z", "a", "r", "e", "l">> [] u = "guest" -> <<"G", "u", "e", "s", "t", " ", "1">>
\* room.roomid is one of the rooms with the duplicate-message cooldown
DuplicateCheckedRooms == {"help", "lobby"}

\* Date.now() when the first message arrives; user.lastMessageTime and
\* room.lastBroadcastTime start at 0, long before it
StartTime == 4 * MESSAGE_COOLDOWN
\* top-level messages served in one behaviour
MaxServed == 2
\* contexts that one top-level parse may nest (the code's own ceiling is
\* MAX_PARSE_RECURSION; this only bounds the model when that does not act)
MaxChain == 12

(***************************************************************************)
(* Values                                                                  *)
(***************************************************************************)
\* the values a handler, canTalk or parse returns
RetUndefined == [t |-> "undefined", text |-> <<>>]
RetFalse == [t |-> "false", text |-> <<>>]
RetTrue == [t |-> "true", text |-> <<>>]
RetNull == [t |-> "null", text |-> <<>>]
RetString(s) == [t |-> "string", text |-> s]
\* a deferred value (a Promise) that will settle as `outcome` says:
\* "resolve" with the text (with undefined when it is empty), "resolve
\* true", "reject ErrorMessage" or "reject Error"
RetPromise(outcome, text) == [t |-> "promise", text |-> text, outcome |-> outcome]
\* JavaScript truthiness of such a value
RetTruthy(v) == v.t = "true" \/ (v.t = "string" /\ v.text # <<>>)

\* toID: lower-case, keep letters and digits
ToID(s) == SelectSeq(ToLower(s), LAMBDA c : c \in (LowerLetters \cup Digits))

(***************************************************************************)
(* MessageContext / CommandContext construction (chat.ts:195-199,370-404)  *)
(***************************************************************************)
\* new CommandContext(options): the message context fields are taken from
\* the options, the command and broadcast context start fresh, and the
\* MessageContext constructor sets recursionDepth to 0.  The last fields
\* are the position of parse() in this context:
\*   pc    "parse" before it runs, "wait" inside a sub-invocation made by
\*         its handler, "done" when it has returned
\*   cont  whether the handler returns the sub-invocation's result
\*   via   the statement parse() left by: "outside" (chat.ts:437),
\*         "ErrorMessage" (467), or the end (504) reached from the handler
\*         ("handler"), from canTalk ("talk") or from the crash report
\*         ("crash")
\*   ret   the value parse() returned
\*   did   what the handler that run() called went on to do (one of the
\*         HandlerPrograms), "none" while no handler has been called
NewContext(options) ==
    [user |-> options.user, room |-> options.room, pmTarget |-> options.pmTarget,
     connection |-> options.connection, message |-> options.message,
     cmd |-> options.cmd, cmdToken |-> options.cmdToken,
     target |-> options.target, fullCmd |-> options.fullCmd,
     handler |-> Undef, isQuiet |-> FALSE,
     broadcasting |-> FALSE, broadcastToRoom |-> TRUE, broadcastMessage |-> <<>>,
     recursionDepth |-> 0,
     pc |-> "parse", cont |-> "none", via |-> "none", ret |-> RetUndefined,
     did |-> "none"]

\* the connection a user's messages come in on
ConnectionOf(u) == <<"connection", u>>
\* Chat.parse's options: {message, room, user, connection}
TopOptions(u, room, pmTarget, message) ==
    [user |-> u, room |-> room, pmTarget |-> pmTarget, connection |-> ConnectionOf(u),
     message |-> message,
     cmd |-> <<>>, cmdToken |-> <<>>, target |-> <<>>, fullCmd |-> <<>>]

\* variant of Subcontext: the child takes over the command and the
\* broadcast of its parent
SubcontextShared(parent, msg) ==
    [NewContext(parent) EXCEPT !.recursionDepth = @ + 1, !.message = msg,
                               !.broadcasting = parent.broadcasting]
\* chat.ts:409-419, the subcontext of parse(msg): built from the parent
\* context, depth incremented, command state emptied
Subcontext(parent, msg) ==
    LET sub == NewContext(parent)
    IN [sub EXCEPT !.recursionDepth = sub.recursionDepth + 1,
                   !.message = msg,
                   !.cmd = <<>>, !.fullCmd = <<>>, !.cmdToken = <<>>,
                   !.target = <<>>]
\* chat.ts:412: the recursion ceiling
TooMuchRecursion(sub) == sub.recursionDepth > MAX_PARSE_RECURSION

(***************************************************************************)
(* State of the dispatcher                                                 *)
(***************************************************************************)
\* the mutable collaborators a step works on
World ==
    [users |-> users, rooms |-> rooms, out |-> out, pending |-> pending,
     granted |-> granted, said |-> said, told |-> told, banwords |-> banwords]

\* an output of the server is appended to the log; kind says who receives it
\*   reply    the invoking connection only
\*   popup    the invoking connection, as a popup
\*   room     everyone in the room (room.add / room.send)
\*   pmpair   both members of the PM pair
\*   chat     a chat message delivered to the room (sendChatMessage)
\*   pm       a chat message delivered to the PM target (Chat.sendPM)
\*   crashlog the crash-report collaborator (Monitor.crashlog)
\* cls is the protocol prefix of the line and tag names its wording
Emit(w, kind, cls, tag, text) ==
    [w EXCEPT !.out = Append(@, [kind |-> kind, cls |-> cls, tag |-> tag, text |-> text])]

\* variant of SendReply: every reply goes to the invoking connection
SendReplyPrivately(f, w, cls, tag, text) ==
    IF f.isQuiet THEN w ELSE Emit(w, "reply", cls, tag, text)
\* chat.ts:714-728 sendReply (with add / send, chat.ts:741-758)
SendReply(f, w, cls, tag, text) ==
    IF f.isQuiet THEN w
    ELSE IF f.broadcasting /\ f.broadcastToRoom
         THEN IF f.room # NoRoom
              THEN Emit(w, "room", cls, tag, text)
              ELSE Emit(w, "pmpair", cls, tag, text)
         ELSE Emit(w, "reply", cls, tag, text)
\* chat.ts:729-731
ErrorReply(f, w, tag, text) == SendReply(f, w, "error", tag, text)
\* chat.ts:735-737
SendReplyBox(f, w, tag) == SendReply(f, w, "c", tag, <<>>)
\* variant of PopupReply: the popup does not reach the connection
PopupReplyLost(w, tag, text) == w
\* chat.ts:738-740 and connection.popup
PopupReply(w, tag, text) == Emit(w, "popup", "popup", tag, text)

\* chat.ts:507-518
SendChatMessage(f, w, message) ==
    IF f.pmTarget # NoUser THEN Emit(w, "pm", "pm", "sendPM", message)
    ELSE IF f.room # NoRoom THEN Emit(w, "chat", "c", "chat", message)
    ELSE PopupReply(w, "could not be sent", message)

\* chat.ts:884-886
ShouldBroadcast(f) == f.cmdToken = BROADCAST_TOKEN

(***************************************************************************)
(* Chat.filter (chat.ts:1404-1425)                                         *)
(***************************************************************************)
\* the behaviours a registered chat filter is drawn from; a filter is a
\* function of the in-flight message
\*   pass     returns undefined
\*   block    returns false
\*   drop     returns null
\*   blank    returns the empty string
\*   tagA     returns the message with "a" appended
\*   tagB     returns the message with "b" appended
\*   noA      returns false when the message contains "a", else undefined
FilterKinds == {"pass", "block", "drop", "blank", "tagA", "tagB", "noA"}

\* curFilter.call(context, message, ...)
CallFilter(kind, message) ==
    CASE kind = "pass" -> RetUndefined
      [] kind = "block" -> RetFalse
      [] kind = "drop" -> RetNull
      [] kind = "blank" -> RetString(<<>>)
      [] kind = "tagA" -> RetString(message \o <<"a">>)
      [] kind = "tagB" -> RetString(message \o <<"b">>)
      [] kind = "noA" -> IF Includes(message, <<"a">>) THEN RetFalse ELSE RetUndefined

\* variant of SuppressedBy: no output is taken as a suppression
SuppressedNever(output) == FALSE
\* chat.ts:1419: a `false` from a filter ends the chain with null
SuppressedBy(output) == output.t = "false"
\* chat.ts:1420: any other falsy output but undefined is returned as it is
ReturnedAsIs(output) == ~RetTruthy(output) /\ output.t # "undefined"
\* variant of Replaced: the in-flight message is never replaced
ReplacedNever(output, message) == message
\* chat.ts:1421: what the next filter receives
Replaced(output, message) == IF output.t # "undefined" THEN output.text ELSE message

\* one turn of the loop, chat.ts:1417-1422: the value returned from inside
\* the loop, if any, and the in-flight message after it
FilterIteration(output, message) ==
    IF SuppressedBy(output)
    THEN [returned |-> TRUE, value |-> RetNull, message |-> message]
    ELSE IF ReturnedAsIs(output)
    THEN [returned |-> TRUE, value |-> output, message |-> message]
    ELSE [returned |-> FALSE, value |-> RetUndefined,
          message |-> Replaced(output, message)]

RECURSIVE FilterFrom(_, _, _)
FilterFrom(filters, i, message) ==
    IF i > Len(filters) THEN RetString(message)
    ELSE LET it == FilterIteration(CallFilter(filters[i], message), message)
         IN IF it.returned THEN it.value
            ELSE FilterFrom(filters, i + 1, it.message)
\* Chat.filter(context, message, ...)
ChatFilter(filters, message) == FilterFrom(filters, 1, message)

\* Chat.filters: the chat filters of the loaded plugins, in their order
ChatFilters == flIn.chain

(***************************************************************************)
(* canTalk (chat.ts:957-1153)                                              *)
(***************************************************************************)
\* chat.ts:1061-1062: each U+FDFD counts as 11 characters
CountFDFD(message) == Len(SelectSeq(message, LAMBDA c : c = FDFD))
\* variant of WeightedLength: the length without the weighting
PlainLength(message) == Len(message)
WeightedLength(message) == Len(message) + 10 * CountFDFD(message)
\* chat.ts:1063
TooLong(user, message) ==
    WeightedLength(message) > MAX_MESSAGE_LENGTH /\ ~UserCan(user, "ignorelimits", NoRoom)

\* chat.ts:664-670
CheckSlowchat(room, user, w) ==
    IF room = NoRoom \/ RoomSettings(room).slowchat = 0 THEN TRUE
    ELSE IF UserCan(user, "show", room) THEN TRUE
    ELSE (now - w.users[user].lastMessageTime) >= 1000 * RoomSettings(room).slowchat

\* chat.ts:1129-1130: the same text again in a duplicate-checked room
DuplicateMessage(room, user, message, w) ==
    /\ ~UserCan(user, "bypassall", NoRoom)
    /\ room \in DuplicateCheckedRooms
    /\ Trim(message) = w.users[user].lastMessage
    /\ (now - w.users[user].lastMessageTime) < MESSAGE_COOLDOWN

\* the places of the characters of s that are not lower-case letters
NonLetters(s) == {i \in DOMAIN s : s[i] \notin LowerLetters}
\* the place after the run of such characters that begins at place i
RunEnd(s, i) ==
    IF \E j \in DOMAIN s : j > i /\ s[j] \in LowerLetters
    THEN CHOOSE j \in DOMAIN s :
             /\ j > i /\ s[j] \in LowerLetters
             /\ \A k \in i..(j - 1) : s[k] \notin LowerLetters
    ELSE Len(s) + 1
\* s.replace(/[^a-z]+/, ''): the pattern has no `g` flag, the first run of
\* characters that are not lower-case letters is removed and no other
ReplaceFirstNonLetters(s) ==
    IF NonLetters(s) = {} THEN s
    ELSE LET i == CHOOSE i \in NonLetters(s) : \A k \in NonLetters(s) : i <= k
         IN  SubSeq(s, 1, i - 1) \o SubSeq(s, RunEnd(s, i), Len(s))
\* chat.ts:1139-1141
HighTrafficReject(room, user, message) ==
    /\ room # NoRoom
    /\ RoomSettings(room).highTraffic
    /\ Len(ReplaceFirstNonLetters(ToID(message))) < 2
    /\ ~UserCan(user, "show", room)

\* /\w/.test(ch) for ch = charAt(..)
WordChar(ch) == ch # <<>> /\ ch[1] \in (Alnum \cup {"_"})
\* chat.ts:676: the pattern (?:\b|(?!\w))(?:word)(?:\b|\B(?!\w)) with the
\* flag i matches the message at index i: the word is there in either
\* letter case, and on each side of it a word character does not continue
\* into another word character
MatchesAt(word, message, i) ==
    /\ ToLower(Slice(message, i, i + Len(word))) = ToLower(word)
    /\ ~(WordChar(CharAt(message, i - 1)) /\ WordChar(CharAt(message, i)))
    /\ ~(WordChar(CharAt(message, i + Len(word) - 1))
          /\ WordChar(CharAt(message, i + Len(word))))
\* chat.ts:676: RegExp.prototype.test of the pattern joined from the words
BanwordTest(words, message) ==
    \E word \in words : \E i \in 0..(Len(message) - Len(word)) :
        MatchesAt(word, message, i)
\* room.banwordRegex: not built yet (the code's undefined), or built from a
\* word list; built from an empty list it is the code's `true`
NoRegex == [built |-> FALSE, words |-> {}]
\* chat.ts:675-679
BanwordRegex(words) == [built |-> TRUE, words |-> words]
\* chat.ts:682
RegexRejects(regex, message) == regex.words # {} /\ BanwordTest(regex.words, message)
\* variant of Inherits: the check stops at the room itself
InheritsNone(room) == NoRoom
\* chat.ts:685: the room whose policy is checked next
Inherits(room) == RoomParent(room)
\* variant of CachedRegex: the pattern is built from the word list each time
CompiledAfresh(room, w) ==
    [w EXCEPT !.banwords[room].regex = BanwordRegex(w.banwords[room].words)]
\* chat.ts:674-680: the pattern is built when the room has none
CachedRegex(room, w) ==
    IF w.banwords[room].regex.built THEN w
    ELSE [w EXCEPT !.banwords[room].regex = BanwordRegex(w.banwords[room].words)]
\* chat.ts:672-686 checkBanwords(room, message): whether the message
\* passes, and the rooms' patterns after the call
RECURSIVE CheckBanwordsIn(_, _, _)
CheckBanwordsIn(room, message, w) ==
    IF message = <<>> THEN [ok |-> TRUE, w |-> w]
    ELSE IF RegexRejects(w.banwords[room].regex, message) THEN [ok |-> FALSE, w |-> w]
    ELSE IF Inherits(room) = NoRoom THEN [ok |-> TRUE, w |-> w]
    ELSE CheckBanwordsIn(Inherits(room), message, CachedRegex(Inherits(room), w))
CheckBanwords(room, message, w) ==
    IF room = NoRoom THEN [ok |-> TRUE, w |-> w]
    ELSE CheckBanwordsIn(room, message, CachedRegex(room, w))

\* chat.ts:1135-1136
LastMessageSet(room, user, message, w) ==
    IF room = NoRoom THEN w
    ELSE [w EXCEPT !.users[user] = [lastMessage |-> message, lastMessageTime |-> now]]
\* canTalk returns the text to the caller: the message is accepted
Said(user, room, text, w) ==
    IF room = NoRoom \/ text = <<>> THEN w
    ELSE [w EXCEPT !.said[user][room] = now,
                   !.told[user] = [text |-> text, time |-> now]]
Rejected(w) == [ok |-> FALSE, text |-> <<>>, w |-> w, ret |-> RetNull]
Accepted(text, w) == [ok |-> text # <<>>, text |-> text, w |-> w, ret |-> RetString(text)]

\* chat.ts:1126-1153: the duplicate check, the record of the message, the
\* high traffic check and the chat filters
TalkAfterBanwords(f, w, room, message) ==
    IF room # NoRoom /\ DuplicateMessage(room, f.user, message, w)
    THEN Rejected(ErrorReply(f, w, "same message", <<>>))
    ELSE IF HighTrafficReject(room, f.user, message)
    THEN Rejected(ErrorReply(f, LastMessageSet(room, f.user, message, w),
                             "high traffic", <<>>))
    ELSE IF Len(ChatFilters) > 0
    THEN IF ChatFilter(ChatFilters, message).t = "string"
         THEN Accepted(ChatFilter(ChatFilters, message).text,
                       Said(f.user, room, ChatFilter(ChatFilters, message).text,
                            LastMessageSet(room, f.user, message, w)))
         ELSE Rejected(LastMessageSet(room, f.user, message, w))
    ELSE Accepted(message, Said(f.user, room, message,
                                LastMessageSet(room, f.user, message, w)))
\* chat.ts:1115-1118: the message body against the ban-words, checked
\* before the capability is looked at
TalkAfterText(f, check, room, message) ==
    IF ~check.ok /\ ~UserCan(f.user, "mute", room)
    THEN Rejected(ErrorReply(f, check.w, "banwords", <<>>))
    ELSE TalkAfterBanwords(f, check.w, room, message)
\* chat.ts:1107-1114: the user's name against the ban-words; no user of
\* the model has a status message
TalkAfterName(f, check, room, message) ==
    IF ~check.ok /\ ~UserCan(f.user, "bypassall", NoRoom)
    THEN Rejected(ErrorReply(f, check.w, "banned name", <<>>))
    ELSE TalkAfterText(f, CheckBanwords(room, message, check.w), room, message)

\* canTalk(message) of context f: the result is the accepted text (ok) or
\* a rejection (the code's null, or an empty text from a filter), with the
\* replies sent and user.lastMessage updated in w.  The stages on
\* characters outside the model's alphabet (zalgo, banned characters), on
\* links, on the room's format settings and on a running game change
\* nothing for the rooms modelled here, which have none of these.
CanTalk(f, w, message) ==
    LET targetUser == f.pmTarget
        room == IF targetUser # NoUser THEN NoRoom ELSE f.room
        user == f.user
        bypass == UserCan(user, "bypassall", NoRoom)
    IN  IF ~UserNamed(user)
        THEN Rejected(PopupReply(w, "must choose a name", <<>>))
        ELSE IF ~bypass /\ room # NoRoom /\ UserLocked(user) /\ ~RoomSettings(room).isHelp
        THEN Rejected(SendReply(f, ErrorReply(f, w, "locked", <<>>), "html", "appeal", <<>>))
        ELSE IF ~bypass /\ room # NoRoom /\ RoomMuted(room, user)
        THEN Rejected(ErrorReply(f, w, "muted", <<>>))
        ELSE IF ~bypass /\ room # NoRoom /\ RoomSettings(room).modchat
        THEN Rejected(ErrorReply(f, w, "modchat", <<>>))
        ELSE IF ~bypass /\ room # NoRoom /\ ~InRoom(user, room)
        THEN Rejected(PopupReply(w, "not in room", <<>>))
        ELSE IF ~bypass /\ targetUser # NoUser /\ UserLocked(user)
                /\ ~UserCan(targetUser, "lock", NoRoom)
        THEN Rejected(SendReply(f, ErrorReply(f, w, "locked pm", <<>>), "html", "appeal", <<>>))
        ELSE IF ~bypass /\ targetUser # NoUser /\ UserLocked(targetUser)
                /\ ~UserCan(user, "lock", NoRoom)
        THEN Rejected(ErrorReply(f, w, "target locked", <<>>))
        ELSE IF message = <<>>
        THEN Rejected(ErrorReply(f, w, "blank", <<>>))
        ELSE IF TooLong(user, message)
        THEN Rejected(ErrorReply(f, w, "too long", message))
        ELSE IF ~CheckSlowchat(room, user, w)
        THEN Rejected(ErrorReply(f, w, "slowchat", <<>>))
        ELSE TalkAfterName(f, CheckBanwords(room, UserName(user), w), room, message)

(***************************************************************************)
(* Broadcast controller (chat.ts:887-954)                                  *)
(***************************************************************************)
\* chat.ts:905: .toLowerCase().replace(/[^a-z0-9\s!,]/g, '')
BroadcastNormal(message) ==
    SelectSeq(ToLower(message),
              LAMBDA c : c \in (LowerLetters \cup Digits \cup Whitespace \cup {"!", ","}))

\* variant of JustBroadcasted: the cooldown test with a strict comparison
JustBroadcastedStrictly(f, w, broadcastMessage) ==
    /\ f.room # NoRoom
    /\ w.rooms[f.room].lastBroadcast = broadcastMessage
    /\ w.rooms[f.room].lastBroadcastTime > now - BROADCAST_COOLDOWN
    /\ ~UserCan(f.user, "bypassall", NoRoom)
\* chat.ts:907-909: the cooldown test on the room's last broadcast
JustBroadcasted(f, w, broadcastMessage) ==
    /\ f.room # NoRoom
    /\ w.rooms[f.room].lastBroadcast = broadcastMessage
    /\ w.rooms[f.room].lastBroadcastTime >= now - BROADCAST_COOLDOWN
    /\ ~UserCan(f.user, "bypassall", NoRoom)

\* variant of BroadcastChecked: the result of canTalk is not looked at
BroadcastUnchecked(f, broadcastMessage, talk) ==
    [ok |-> TRUE, f |-> [f EXCEPT !.broadcastMessage = broadcastMessage], w |-> talk.w]
\* chat.ts:914-923: the invocation text has gone through canTalk
BroadcastChecked(f, broadcastMessage, talk) ==
    IF ~talk.ok
    THEN [ok |-> FALSE, f |-> f,
          w |-> ErrorReply(f, talk.w, "see it for yourself", SliceFrom(f.message, 1))]
    ELSE [ok |-> TRUE,
          f |-> [f EXCEPT !.message = talk.text, !.broadcastMessage = broadcastMessage],
          w |-> talk.w]

\* variant of CanBroadcast: a context without a room and without a PM
\* target is let through
CanBroadcastAnywhere(f, w, ignoreCooldown) ==
    IF f.broadcasting \/ ~ShouldBroadcast(f) THEN [ok |-> TRUE, f |-> f, w |-> w]
    ELSE IF f.room # NoRoom /\ ~UserCan(f.user, "show", f.room)
    THEN [ok |-> FALSE, f |-> f,
          w |-> ErrorReply(f, ErrorReply(f, w, "need voice", <<>>),
                           "see it for yourself", SliceFrom(f.message, 1))]
    ELSE IF ~ignoreCooldown /\ JustBroadcasted(f, w, BroadcastNormal(f.message))
    THEN [ok |-> FALSE, f |-> f, w |-> ErrorReply(f, w, "just broadcasted", <<>>)]
    ELSE BroadcastChecked(f, BroadcastNormal(f.message), CanTalk(f, w, f.message))
\* canBroadcast(ignoreCooldown), without a suppressMessage
CanBroadcast(f, w, ignoreCooldown) ==
    IF f.broadcasting \/ ~ShouldBroadcast(f) THEN [ok |-> TRUE, f |-> f, w |-> w]
    ELSE IF f.room # NoRoom /\ ~UserCan(f.user, "show", f.room)
    THEN [ok |-> FALSE, f |-> f,
          w |-> ErrorReply(f, ErrorReply(f, w, "need voice", <<>>),
                           "see it for yourself", SliceFrom(f.message, 1))]
    ELSE IF f.room = NoRoom /\ f.pmTarget = NoUser
    THEN [ok |-> FALSE, f |-> f,
          w |-> ErrorReply(f, ErrorReply(f, w, "broadcast needs a target", <<>>),
                           "see it for yourself", SliceFrom(f.message, 1))]
    ELSE IF ~ignoreCooldown /\ JustBroadcasted(f, w, BroadcastNormal(f.message))
    THEN [ok |-> FALSE, f |-> f, w |-> ErrorReply(f, w, "just broadcasted", <<>>)]
    ELSE BroadcastChecked(f, BroadcastNormal(f.message), CanTalk(f, w, f.message))

\* variant of LastBroadcastSet: the room's record is left as it was
LastBroadcastKept(f, w) == w
\* chat.ts:948-949: the room remembers the broadcast
LastBroadcastSet(f, w) ==
    [w EXCEPT !.rooms[f.room] = [lastBroadcast |-> f.broadcastMessage,
                                 lastBroadcastTime |-> now]]
\* the broadcast that the context f has been granted in its room joins the
\* history
Granted(f, w) ==
    IF f.room = NoRoom THEN w
    ELSE [w EXCEPT !.granted = Append(@, [room |-> f.room, text |-> f.broadcastMessage,
                                          time |-> now, user |-> f.user])]

\* chat.ts:936-953: permission is settled (can); the context starts
\* broadcasting
Broadcasts(can, ignoreCooldown) ==
    IF ~can.ok THEN can
    ELSE LET f2 == [can.f EXCEPT !.broadcasting = TRUE]
             w2 == Granted(f2, SendReply(f2, can.w, "c", "broadcast", f2.message))
         IN [ok |-> TRUE, f |-> f2,
             w |-> IF f2.room # NoRoom /\ ~ignoreCooldown
                   THEN LastBroadcastSet(f2, w2)
                   ELSE w2]

\* runBroadcast(ignoreCooldown), without a suppressMessage
RunBroadcast(f, w, ignoreCooldown) ==
    IF f.broadcasting \/ ~ShouldBroadcast(f) THEN [ok |-> TRUE, f |-> f, w |-> w]
    ELSE Broadcasts(IF f.broadcastMessage = <<>>
                    THEN CanBroadcast(f, w, ignoreCooldown)
                    ELSE [ok |-> TRUE, f |-> f, w |-> w],
                    ignoreCooldown)

(***************************************************************************)
(* Command handlers                                                        *)
(***************************************************************************)
\* annotateCommands, chat.ts:1670: the handler's code calls canBroadcast or
\* runBroadcast
Broadcastable(id) == id \in {"stone", "othermetas", "help", "slow"}

\* What a handler call does.  The handlers of the plugins in the source
\* are followed statement by statement; `help` and `join` are core
\* commands and `plug`, `loop` and `later` plugin commands whose code is not
\* part of the source: their behaviour is chosen by the environment among
\* the things a handler can do with its context (`loop` dispatches its
\* own invocation again, `later` is an async function: it returns a
\* deferred value that resolves or rejects after parse has returned).
HandlerPrograms(id) ==
    CASE id = "stone" -> {"stone found", "stone not found"}
      [] id = "chatlog" -> {"chatlog"}
      [] id = "searchlogs" -> {"searchlogs"}
      [] id = "searchlogshelp" -> {"searchlogshelp"}
      [] id = "help" -> {"broadcast reply"}
      [] id = "join" -> {"return undefined", "throw ErrorMessage"}
      [] id = "plug" -> {"return undefined", "return true", "return target",
                         "throw ErrorMessage", "throw Error"}
      [] id = "loop" -> {"parse again"}
      [] id = "slow" -> {"check then wait"}
      [] id = "later" -> {"resolve target", "resolve true",
                          "reject ErrorMessage", "reject Error"}
      [] OTHER -> {}

\* the results of a handler call
Returns(f, w, v) == [kind |-> "return", f |-> f, w |-> w, v |-> v, msg |-> <<>>, cont |-> "none"]
Throws(f, w, err) == [kind |-> err, f |-> f, w |-> w, v |-> RetUndefined, msg |-> <<>>, cont |-> "none"]
\* this.parse(msg) inside a handler; cont tells whether the handler returns
\* the sub-invocation's result ("return") or drops it ("ignore")
Parses(f, w, msg, cont) == [kind |-> "parse", f |-> f, w |-> w, v |-> RetUndefined, msg |-> msg, cont |-> cont]

\* target.split(',')[0]
FirstPart(target) ==
    IF IndexOf(target, ",") < 0 THEN target ELSE Slice(target, 0, IndexOf(target, ","))

\* othermetas.ts:182-275, the stone handler; b is what its first
\* statement, this.runBroadcast(), returned and did
Stone(program, b) ==
    IF ~b.ok THEN Returns(b.f, b.w, RetUndefined)
    ELSE IF ToID(FirstPart(b.f.target)) = <<>>
    THEN Parses(b.f, b.w, <<"/", "h", "e", "l", "p", " ", "s", "t", "o", "n", "e">>, "return")
    ELSE IF program = "stone not found"
    THEN Returns(b.f, ErrorReply(b.f, b.w, "stone not found", <<>>), RetUndefined)
    ELSE Returns(b.f, SendReply(b.f, SendReply(b.f, b.w, "raw", "stone", <<>>),
                                "raw", "stone details", <<>>),
                 RetUndefined)

\* a handler that broadcasts and shows a box:
\* if (!this.runBroadcast()) return; this.sendReplyBox(...)
BroadcastReply(b) ==
    IF ~b.ok THEN Returns(b.f, b.w, RetUndefined)
    ELSE Returns(b.f, SendReplyBox(b.f, b.w, "help"), RetUndefined)

\* handler.call(this, this.target, this.room, this.user, ...)
HandlerCall(program, f, w) ==
    CASE program \in {"stone found", "stone not found"} ->
            Stone(program, RunBroadcast(f, w, FALSE))
      [] program = "chatlog" ->
            \* part_000:722-726
            Parses(f, w, <<"/", "j", "o", "i", "n", " ", "v", "i", "e", "w", "-", "c", "h", "a", "t", "l", "o", "g">>, "ignore")
      [] program = "searchlogs" ->
            \* part_000:733-758
            IF f.room = NoRoom
            THEN Returns(f, ErrorReply(f, w, "must be used in a chat room", <<>>), RetUndefined)
            ELSE IF Trim(f.target) = <<>>
            THEN Parses(f, w, <<"/", "h", "e", "l", "p", " ", "s", "e", "a", "r", "c", "h", "l", "o", "g", "s">>, "return")
            ELSE Parses(f, w, <<"/", "j", "o", "i", "n", " ", "v", "i", "e", "w", "-", "c", "h", "a", "t", "l", "o", "g">>, "return")
      [] program = "searchlogshelp" ->
            \* part_000:759-770
            Returns(f, SendReplyBox(f, w, "searchlogshelp"), RetUndefined)
      [] program = "broadcast reply" ->
            BroadcastReply(RunBroadcast(f, w, FALSE))
      [] program = "return undefined" -> Returns(f, w, RetUndefined)
      [] program = "return true" -> Returns(f, w, RetTrue)
      [] program = "return target" -> Returns(f, w, RetString(f.target))
      [] program = "parse again" -> Parses(f, w, f.message, "return")
      [] program = "throw ErrorMessage" -> Throws(f, w, "ErrorMessage")
      [] program = "throw Error" -> Throws(f, w, "Error")
      [] program = "check then wait" ->
            \* if (!this.canBroadcast()) return; await ...;
            \* if (!this.runBroadcast()) return; this.sendReplyBox(...)
            IF CanBroadcast(f, w, FALSE).ok
            THEN Returns(CanBroadcast(f, w, FALSE).f, CanBroadcast(f, w, FALSE).w,
                         RetPromise("then broadcast", <<>>))
            ELSE Returns(CanBroadcast(f, w, FALSE).f, CanBroadcast(f, w, FALSE).w,
                         RetUndefined)
      [] program = "resolve target" -> Returns(f, w, RetPromise("resolve", f.target))
      [] program = "resolve true" -> Returns(f, w, RetPromise("resolve true", <<>>))
      [] program = "reject ErrorMessage" ->
            Returns(f, w, RetPromise("reject ErrorMessage", <<>>))
      [] program = "reject Error" -> Returns(f, w, RetPromise("reject Error", <<>>))

\* run(handler), chat.ts:621-632
RunTarget(handler) ==
    IF handler.kind = "string" THEN Get(ChatCommands, handler.to) ELSE handler
\* variant of NotBroadcastable: every handler may be broadcast
NotBroadcastableNever(f) == FALSE
\* chat.ts:623
NotBroadcastable(f) == ~Broadcastable(RunTarget(f.handler).id) /\ f.cmdToken = <<"!">>
Run(program, f, w) ==
    IF NotBroadcastable(f)
    THEN Returns(f, ErrorReply(f, ErrorReply(f, w, "can't be broadcast", f.fullCmd),
                               "use / instead", f.fullCmd),
                 RetFalse)
    ELSE HandlerCall(program, [f EXCEPT !.did = program], w)
\* chat.ts:629
RunResult(v) == IF v.t = "undefined" THEN RetFalse ELSE v

(***************************************************************************)
(* CommandContext.parse (chat.ts:406-505)                                  *)
(***************************************************************************)
\* chat.ts:424-431: the context takes over the fields of the descriptor
TakeOver(f, parsedCommand) ==
    IF parsedCommand.null THEN f
    ELSE [f EXCEPT !.cmd = parsedCommand.cmd, !.fullCmd = parsedCommand.fullCmd,
                   !.cmdToken = parsedCommand.cmdToken,
                   !.target = parsedCommand.target,
                   !.handler = parsedCommand.handler]
Resolved(f) == TakeOver(f, ParseCommand(ChatCommands, f.message))
\* chat.ts:433
NotInRoom(f) == f.room # NoRoom /\ ~InRoom(f.user, f.room)
\* variant of Entered: the context keeps the lobby
EnteredAsIs(f) == f
\* chat.ts:434-435: the lobby is dropped from the context of a non-member
Entered(f) == IF NotInRoom(f) /\ f.room = "lobby" THEN [f EXCEPT !.room = NoRoom] ELSE f

\* variant of Complete: the output that passes the string through canTalk first
CompleteValidated(f, w, message) ==
    [f |-> [f EXCEPT !.pc = "done", !.ret = message],
     w |-> IF RetTruthy(message) /\ message.t = "string" /\ CanTalk(f, w, message.text).ok
           THEN SendChatMessage(f, CanTalk(f, w, message.text).w, message.text)
           ELSE w]
\* chat.ts:478-504: a deferred value gets a continuation, a non-empty
\* string is delivered, and the context is finished with the value as its
\* result
Complete(f, w, message) ==
    [f |-> [f EXCEPT !.pc = "done", !.ret = message],
     w |-> IF message.t = "promise"
           THEN [w EXCEPT !.pending =
                    Append(@, [f |-> [f EXCEPT !.pc = "done", !.ret = message],
                               outcome |-> message.outcome, text |-> message.text])]
           ELSE IF RetTruthy(message) /\ message.t = "string"
           THEN SendChatMessage(f, w, message.text)
           ELSE w]

\* variant of CrashReport: the error is swallowed without a report
CrashUnreported(f, w, description) == w
\* chat.ts:469-475 (and 490-496): Monitor.crashlog(err, description, {user,
\* room, pmTarget, message}) and the crash notice for the user
CrashReport(f, w, description) ==
    SendReply(f,
              [w EXCEPT !.out = Append(@, [kind |-> "crashlog", cls |-> "crashlog",
                                           tag |-> description, text |-> f.message,
                                           user |-> f.user, room |-> f.room,
                                           pmTarget |-> f.pmTarget])],
              "html", "crashed", <<>>)

\* variant of Caught: every error is handled as a crash
CaughtAsCrash(f, w, err, entryMessage) ==
    Complete([f EXCEPT !.via = "crash"], CrashReport(f, w, "A chat command"),
             RetString(entryMessage))
\* chat.ts:464-476: an error thrown inside the try block.  entryMessage is
\* the local `message`, still the text the context was entered with
Caught(f, w, err, entryMessage) ==
    IF err = "ErrorMessage"
    THEN [f |-> [f EXCEPT !.pc = "done", !.via = "ErrorMessage", !.ret = RetFalse],
          w |-> ErrorReply(f, w, "ErrorMessage", <<>>)]
    ELSE Complete([f EXCEPT !.via = "crash"], CrashReport(f, w, "A chat command"),
                  RetString(entryMessage))

\* variant of DoesNotExist: every unresolved input that used a command symbol
DoesNotExistAlways(f) == f.cmdToken # <<>>
\* chat.ts:449-453: an unresolved input that used a command symbol
DoesNotExist(f) ==
    f.cmdToken # <<>> /\ ~(ShouldBroadcast(f) /\ ~LowerAlnum(CharAt(f.cmd, 0)))
\* variant of Escaped: the escape that doubles either command symbol
EscapedDoubling(f, message) ==
    IF /\ f.cmdToken = <<>>
       /\ ~Includes(VALID_COMMAND_TOKENS, CharAt(message, 0))
       /\ Includes(VALID_COMMAND_TOKENS, CharAt(Trim(message), 0))
    THEN CharAt(Trim(message), 0) \o Trim(message)
    ELSE message
\* variant of Escaped: the escape that also takes one of two doubled symbols away
EscapedOrUndoubled(f, message) ==
    IF Len(message) >= 2 /\ message[1] = message[2]
          /\ Includes(VALID_COMMAND_TOKENS, CharAt(message, 0))
    THEN SliceFrom(message, 1)
    ELSE message
\* chat.ts:454-460: a command symbol after leading whitespace is escaped
Escaped(f, message) ==
    IF /\ f.cmdToken = <<>>
       /\ ~Includes(VALID_COMMAND_TOKENS, CharAt(message, 0))
       /\ Includes(VALID_COMMAND_TOKENS, CharAt(Trim(message), 0))
    THEN IF CharAt(Trim(message), 0) # BROADCAST_TOKEN
         THEN CharAt(Trim(message), 0) \o Trim(message)
         ELSE Trim(message)
    ELSE message

Top == stack[Len(stack)]
WithTop(f) == [stack EXCEPT ![Len(stack)] = f]
Commit(w) ==
    /\ users' = w.users /\ rooms' = w.rooms /\ out' = w.out
    /\ pending' = w.pending /\ granted' = w.granted /\ said' = w.said
    /\ told' = w.told /\ banwords' = w.banwords

\* Chat.parse(message, room, user, connection), chat.ts:1633-1638, for a
\* message arriving `delay` ms after the previous one (the first arrives
\* at StartTime); pmTarget is the
\* option of the CommandContext constructor (chat.ts:383); at most `limit`
\* messages are served
Arrive(u, room, pmTarget, message, delay, limit) ==
    /\ stack = <<>>
    /\ served < limit
    /\ stack' = <<NewContext(TopOptions(u, room, pmTarget, message))>>
    /\ now' = IF served = 0 THEN now ELSE now + delay
    /\ out' = <<>>
    /\ served' = served + 1
    /\ UNCHANGED <<users, rooms, pending, granted, said, told, banwords>>
    /\ UNCHANGED <<resolveVars, filterVars, lengthVars, pluginVars, utilityVars>>
ChatParse(u, room, pmTarget, message, delay) ==
    Arrive(u, room, pmTarget, message, delay, MaxServed)

\* chat.ts:433-438: a message to a room other than the lobby from a user
\* who is not in it
ParseOutsideRoom ==
    /\ stack # <<>> /\ Top.pc = "parse"
    /\ \E f \in {Resolved(Top)} :
          /\ NotInRoom(f) /\ f.room # "lobby"
          /\ stack' = WithTop([f EXCEPT !.pc = "done", !.via = "outside",
                                         !.ret = RetUndefined])
          /\ Commit(PopupReply(World, "not in that room", f.message))
    /\ UNCHANGED <<now, served>>
    /\ UNCHANGED <<resolveVars, filterVars, lengthVars, pluginVars, utilityVars>>

\* chat.ts:462 and 478-504: the message as canTalk returned it
Talked(f, talk) ==
    Complete([f EXCEPT !.via = "talk"], talk.w,
             talk.ret)

\* chat.ts:448-463 and 478-504: no handler was resolved
ParseChat ==
    /\ stack # <<>> /\ Top.pc = "parse"
    /\ \E f0 \in {Resolved(Top)} : \E f \in {Entered(f0)} :
          /\ ~(NotInRoom(f0) /\ f0.room # "lobby")
          /\ ~Truthy(f.handler)
          /\ \E r \in {IF DoesNotExist(f)
                        THEN Caught(f, World, "ErrorMessage", f.message)
                        ELSE Talked(f, CanTalk(f, World, Escaped(f, f.message)))} :
                stack' = WithTop(r.f) /\ Commit(r.w)
    /\ UNCHANGED <<now, served>>
    /\ UNCHANGED <<resolveVars, filterVars, lengthVars, pluginVars, utilityVars>>

\* chat.ts:447 and 464-504: the handler call r has returned or thrown
Ran(r, entryMessage) ==
    IF r.kind = "return"
    THEN Complete([r.f EXCEPT !.via = "handler"], r.w, RunResult(r.v))
    ELSE IF r.kind = "parse" THEN Caught(r.f, r.w, "Error", entryMessage)
    ELSE Caught(r.f, r.w, r.kind, entryMessage)

\* chat.ts:446-447 with run (621-632), the catch (464-476), the output
\* (478-504) and, when the handler calls this.parse(msg), 407-420.  A
\* sub-invocation is refused with an Error by the recursion ceiling, or by
\* the engine when MaxChain contexts are already nested
ParseRun ==
    /\ stack # <<>> /\ Top.pc = "parse"
    /\ \E f0 \in {Resolved(Top)} : \E f \in {Entered(f0)} :
          /\ ~(NotInRoom(f0) /\ f0.room # "lobby")
          /\ Truthy(f.handler)
          /\ \E program \in HandlerPrograms(RunTarget(f.handler).id) :
              \E r \in {Run(program, f, World)} :
              \E sub \in {Subcontext(r.f, r.msg)} :
                IF r.kind = "parse" /\ ~TooMuchRecursion(sub) /\ Len(stack) < MaxChain
                THEN /\ stack' = Append(WithTop([r.f EXCEPT !.pc = "wait", !.cont = r.cont]),
                                        sub)
                     /\ Commit(r.w)
                ELSE \E c \in {Ran(r, f.message)} :
                        stack' = WithTop(c.f) /\ Commit(c.w)
    /\ UNCHANGED <<now, served>>
    /\ UNCHANGED <<resolveVars, filterVars, lengthVars, pluginVars, utilityVars>>

\* chat.ts:420: subcontext.parse() returns into the handler that called
\* it, the handler returns, and the calling context finishes (629, 478-504)
Return ==
    /\ Len(stack) >= 2 /\ Top.pc = "done"
    /\ \E parent \in {stack[Len(stack) - 1]} :
       \E c \in {Complete([parent EXCEPT !.via = "handler"], World,
                          RunResult(IF parent.cont = "return" THEN Top.ret
                                    ELSE RetUndefined))} :
          /\ stack' = Append(SubSeq(stack, 1, Len(stack) - 2), c.f)
          /\ Commit(c.w)
    /\ UNCHANGED <<now, served>>
    /\ UNCHANGED <<resolveVars, filterVars, lengthVars, pluginVars, utilityVars>>

\* chat.ts:1637: the top-level context.parse() returns to the caller
Finish ==
    /\ Len(stack) = 1 /\ Top.pc = "done"
    /\ stack' = <<>>
    /\ UNCHANGED <<users, rooms, now, out, served, pending, granted, said, told,
                   banwords>>
    /\ UNCHANGED <<resolveVars, filterVars, lengthVars, pluginVars, utilityVars>>

\* variant of Settled: the continuation does nothing
SettledSilently(f, w, outcome, text) == w
\* chat.ts:480-497: the continuation of the context f runs for a deferred
\* value that has settled
Settled(f, w, outcome, text) ==
    CASE outcome = "resolve" ->
            IF text # <<>> THEN SendChatMessage(f, w, text) ELSE w
      [] outcome = "resolve true" -> w
      [] outcome = "then broadcast" ->
            \* the handler goes on after its await, and its deferred value
            \* resolves to undefined
            IF RunBroadcast(f, w, FALSE).ok
            THEN SendReplyBox(RunBroadcast(f, w, FALSE).f, RunBroadcast(f, w, FALSE).w, "slow")
            ELSE RunBroadcast(f, w, FALSE).w
      [] outcome = "reject ErrorMessage" -> ErrorReply(f, w, "ErrorMessage", <<>>)
      [] outcome = "reject Error" -> CrashReport(f, w, "An async chat command")

\* removing the k-th element of a sequence
Without(seq, k) == SubSeq(seq, 1, k - 1) \o SubSeq(seq, k + 1, Len(seq))

\* chat.ts:480-497: a deferred value settles and the continuation that
\* parse() attached to it runs; this happens between two top-level
\* messages, when no parse() is running
Settle(k) ==
    /\ stack = <<>>
    /\ k \in DOMAIN pending
    /\ Commit(Settled(pending[k].f, [World EXCEPT !.pending = Without(@, k)],
                      pending[k].outcome, pending[k].text))
    /\ UNCHANGED <<stack, now, served>>
    /\ UNCHANGED <<resolveVars, filterVars, lengthVars, pluginVars, utilityVars>>

(***************************************************************************)
(* parseCommand applied to one input                                       *)
(***************************************************************************)

\* parseCommand(message)
Resolve ==
    /\ rsIn.phase = "ready"
    /\ ~IsAliasInput(rsIn)
    /\ rsIn' = [rsIn EXCEPT !.phase = "done"]
    /\ rsOut' = ParseCommand(Registries[rsIn.reg], rsIn.msg)
    /\ rsRef' = rsRef
    /\ UNCHANGED <<dispatchVars, filterVars, lengthVars, pluginVars, utilityVars>>

\* parseCommand('/V x') and parseCommand('/W x') for a verb V registered as
\* the string alias of W
ResolveAliasPair ==
    /\ rsIn.phase = "ready"
    /\ IsAliasInput(rsIn)
    /\ rsIn' = [rsIn EXCEPT !.phase = "done"]
    /\ rsOut' = ParseCommand(Registries[rsIn.reg], rsIn.msg)
    /\ rsRef' = ParseCommand(Registries[rsIn.reg],
                             CommandText(rsIn.tok, AliasedVerb(rsIn), rsIn.target))
    /\ UNCHANGED <<dispatchVars, filterVars, lengthVars, pluginVars, utilityVars>>

(***************************************************************************)
(* Chat.filter applied to one message                                      *)
(***************************************************************************)
\* filters registered at once
MaxFilters == 3
FilterChains == UNION {[1..n -> FilterKinds] : n \in 0..MaxFilters}
FilterMessages == {<<"h", "i">>, <<"a">>}
NoFilterInput == [chain |-> <<>>, original |-> <<>>, next |-> 1, returned |-> TRUE]
FilterInputs ==
    {[chain |-> c, original |-> m, next |-> 1, returned |-> FALSE] :
        c \in FilterChains, m \in FilterMessages}

\* chat.ts:1417-1422: the next filter of the chain is called with the
\* in-flight message
FilterCall ==
    /\ ~flIn.returned
    /\ flIn.next <= Len(flIn.chain)
    /\ LET output == CallFilter(flIn.chain[flIn.next], flMessage)
           it == FilterIteration(output, flMessage)
       IN /\ flSeen' = Append(flSeen, flMessage)
          /\ flIn' = [flIn EXCEPT !.next = @ + 1, !.returned = it.returned]
          /\ flMessage' = it.message
          /\ flResult' = it.value
    /\ UNCHANGED <<dispatchVars, resolveVars, lengthVars, pluginVars, utilityVars>>

\* chat.ts:1424: the loop is over
FilterEnd ==
    /\ ~flIn.returned
    /\ flIn.next > Len(flIn.chain)
    /\ flIn' = [flIn EXCEPT !.returned = TRUE]
    /\ flResult' = RetString(flMessage)
    /\ UNCHANGED <<flMessage, flSeen>>
    /\ UNCHANGED <<dispatchVars, resolveVars, lengthVars, pluginVars, utilityVars>>

(***************************************************************************)
(* canTalk applied to one message                                          *)
(***************************************************************************)
\* U+FDFD characters in a message
MaxFDFD == 50
\* how far from the ceiling the weighted lengths of the messages range
LengthMargin == 2
Plain(n) == [i \in 1..n |-> "a"]
Ligatures(k) == [i \in 1..k |-> FDFD]
\* a message of n plain characters with k U+FDFD characters in it
Composed(n, k) ==
    IF n = 0 THEN Ligatures(k) ELSE <<"a">> \o Ligatures(k) \o Plain(n - 1)
NoLengthInput == [phase |-> "idle", user |-> "alice", room |-> NoRoom, plain |-> 0, fdfd |-> 0]
\* plain-character counts that put the weighted length near the ceiling
PlainCounts(k) ==
    {m \in 0..(MAX_MESSAGE_LENGTH + LengthMargin) :
        \/ m <= 1
        \/ /\ m + 11 * k >= MAX_MESSAGE_LENGTH - LengthMargin
           /\ m + 11 * k <= MAX_MESSAGE_LENGTH + LengthMargin}
LengthInputs ==
    UNION {{[phase |-> "ready", user |-> u, room |-> "tech", plain |-> n, fdfd |-> k] :
               u \in {"alice", "bob", "zarel"}, n \in PlainCounts(k)} :
           k \in 0..MaxFDFD}

\* canTalk(message) in a fresh context of the user in the room
CanTalkCall ==
    /\ lnIn.phase = "ready"
    /\ \E message \in {Composed(lnIn.plain, lnIn.fdfd)} :
       \E talk \in {CanTalk(NewContext(TopOptions(lnIn.user, lnIn.room, NoUser, message)),
                            World, message)} :
          /\ lnOut' = [ok |-> talk.ok, text |-> talk.text]
          /\ Commit(talk.w)
    /\ lnIn' = [lnIn EXCEPT !.phase = "done"]
    /\ UNCHANGED <<stack, now, served>>
    /\ UNCHANGED <<resolveVars, filterVars, pluginVars, utilityVars>>

(***************************************************************************)
(* Plugins: annotateCommands and loadPluginData (chat.ts:1662-1713)        *)
(***************************************************************************)
\* what annotateCommands reads in the source text of a handler function:
\* whether it contains `this.requiresRoom(`, `this.can(` with a third
\* argument, `this.canBroadcast(` or `this.runBroadcast(`,
\* `this.privatelyCan(`, and the command named in `this.run('...')` ("" when
\* there is none).  A handler calls what its text contains
HandlerCode(id) ==
    CASE id = "secret" ->
            [requiresRoom |-> FALSE, can3 |-> FALSE, broadcast |-> FALSE,
             privatelyCan |-> TRUE, runs |-> ""]
      [] id = "rules" ->
            [requiresRoom |-> TRUE, can3 |-> TRUE, broadcast |-> TRUE,
             privatelyCan |-> FALSE, runs |-> ""]
      [] id \in {"late", "hidden"} ->
            [requiresRoom |-> FALSE, can3 |-> FALSE, broadcast |-> TRUE,
             privatelyCan |-> TRUE, runs |-> ""]
      [] id \in {"viewsecret", "peek", "inner"} ->
            [requiresRoom |-> FALSE, can3 |-> FALSE, broadcast |-> FALSE,
             privatelyCan |-> FALSE, runs |-> "secret"]
      [] id = "viewrules" ->
            [requiresRoom |-> FALSE, can3 |-> FALSE, broadcast |-> FALSE,
             privatelyCan |-> FALSE, runs |-> "rules"]
      [] id = "early" ->
            [requiresRoom |-> FALSE, can3 |-> FALSE, broadcast |-> FALSE,
             privatelyCan |-> FALSE, runs |-> "late"]
      [] id = "show" ->
            [requiresRoom |-> FALSE, can3 |-> FALSE, broadcast |-> FALSE,
             privatelyCan |-> FALSE, runs |-> "hidden"]
      [] id = "glance" ->
            [requiresRoom |-> FALSE, can3 |-> FALSE, broadcast |-> FALSE,
             privatelyCan |-> FALSE, runs |-> "peek"]
HandlerIds ==
    {"secret", "rules", "late", "hidden", "viewsecret", "peek", "viewrules", "inner",
     "early", "show", "glance"}

\* the entries of a command table, in the order of its keys: a handler
\* function, a string alias, or a nested table
PluginFn(key, id) == [key |-> key, kind |-> "function", id |-> id, table |-> <<>>]
PluginAlias(key, to) == [key |-> key, kind |-> "string", id |-> to, table |-> <<>>]
PluginSub(key, table) == [key |-> key, kind |-> "object", id |-> "", table |-> table]
NoEntry == [key |-> "", kind |-> "undefined", id |-> "", table |-> <<>>]

\* the plugin files and the `commands` each exports.  In "base" the
\* handler that runs another one comes after it; in "ordered" and "admin"
\* it comes before it; in "other" and "extra" the handlers run commands
\* of another file, as the othermetas handler runs 'formathelp'
\* (othermetas.ts:69); the nested handler of "base" runs a top-level
\* command
PluginFiles == {"base", "ordered", "admin", "other", "extra"}
PluginCommands(file) ==
    CASE file = "base" ->
            <<PluginFn("secret", "secret"), PluginFn("rules", "rules"),
              PluginAlias("r", "rules"), PluginFn("viewsecret", "viewsecret"),
              PluginSub("tools", <<PluginFn("inner", "inner")>>)>>
      [] file = "ordered" ->
            <<PluginFn("early", "early"), PluginFn("late", "late")>>
      [] file = "admin" ->
            <<PluginFn("show", "show"), PluginFn("hidden", "hidden")>>
      [] file = "other" ->
            <<PluginFn("peek", "peek"), PluginFn("viewrules", "viewrules")>>
      [] file = "extra" ->
            <<PluginFn("glance", "glance")>>
\* the keys of Chat.commands
CommandKeys ==
    UNION {{PluginCommands(file)[i].key : i \in DOMAIN PluginCommands(file)} :
              file \in PluginFiles}

\* the properties of a handler function that has not been annotated: all
\* undefined
Unannotated ==
    [requiresRoom |-> FALSE, hasRoomPermissions |-> FALSE, broadcastable |-> FALSE,
     isPrivate |-> FALSE, cmd |-> "", fullCmd |-> <<>>]

\* commandTable[key]
TableGet(table, key) ==
    IF \E i \in DOMAIN table : table[i].key = key
    THEN table[CHOOSE i \in DOMAIN table : table[i].key = key]
    ELSE NoEntry
\* variant of BaseEntry: the base command is looked up in Chat.commands
BaseEntryAnywhere(table, baseCommand, commands) ==
    IF baseCommand \in DOMAIN commands /\ commands[baseCommand].kind # "undefined"
    THEN commands[baseCommand]
    ELSE TableGet(table, baseCommand)
\* chat.ts:1677-1680: the base command of a handler that uses this.run is
\* looked up in the table that is being annotated
BaseEntry(table, baseCommand, commands) == TableGet(table, baseCommand)
\* the properties read from baseEntry: those of a function as they are
\* now, none on any other value
BaseFlags(baseEntry, handlers) ==
    IF baseEntry.kind = "function" THEN handlers[baseEntry.id] ELSE Unannotated
\* chat.ts:1670-1692: one handler function is annotated
AnnotateEntry(entry, namespace, code, base, handlers) ==
    [handlers EXCEPT ![entry.id] =
        [requiresRoom |-> code.requiresRoom \/ base.requiresRoom,
         hasRoomPermissions |-> code.can3 \/ base.hasRoomPermissions,
         broadcastable |-> code.broadcast \/ base.broadcastable,
         isPrivate |-> code.privatelyCan \/ base.isPrivate,
         cmd |-> entry.key,
         fullCmd |-> Append(namespace, entry.key)]]
\* chat.ts:1662-1695 annotateCommands(commandTable, namespace), from the
\* i-th key on: the properties of the handler functions after it
RECURSIVE AnnotateFrom(_, _, _, _, _)
AnnotateFrom(table, i, namespace, commands, handlers) ==
    IF i > Len(table) THEN handlers
    ELSE IF table[i].kind = "object"
    THEN AnnotateFrom(table, i + 1, namespace, commands,
                      AnnotateFrom(table[i].table, 1, Append(namespace, table[i].key),
                                   commands, handlers))
    ELSE IF table[i].kind # "function"
    THEN AnnotateFrom(table, i + 1, namespace, commands, handlers)
    ELSE AnnotateFrom(table, i + 1, namespace, commands,
                      AnnotateEntry(table[i], namespace, HandlerCode(table[i].id),
                                    BaseFlags(BaseEntry(table, HandlerCode(table[i].id).runs,
                                                        commands),
                                              handlers),
                                    handlers))
AnnotateCommands(table, commands, handlers) ==
    AnnotateFrom(table, 1, <<>>, commands, handlers)
\* Object.assign(Chat.commands, table)
Assign(commands, table) ==
    [key \in CommandKeys |->
        IF TableGet(table, key).kind # "undefined" THEN TableGet(table, key)
        ELSE commands[key]]

\* no plugin has been loaded
PluginStart ==
    plugins = [commands |-> [key \in CommandKeys |-> NoEntry],
               handlers |-> [id \in HandlerIds |-> Unannotated],
               files |-> {}, last |-> ""]

\* chat.ts:1696-1713 loadPluginData(plugin) for a plugin that exports
\* commands only
LoadPluginData(file) ==
    /\ file \notin plugins.files
    /\ plugins' =
          [commands |-> Assign(plugins.commands, PluginCommands(file)),
           handlers |-> AnnotateCommands(PluginCommands(file), plugins.commands,
                                         plugins.handlers),
           files |-> plugins.files \cup {file},
           last |-> plugins.last]
    /\ UNCHANGED <<dispatchVars, resolveVars, filterVars, lengthVars, utilityVars>>

\* the handler `id` runs, or the handler that it runs with
\* this.run('...') (chat.ts:621-629, looked up in Chat.commands), calls
\* this.privatelyCan(...)
RECURSIVE CallsPrivatelyCan(_, _)
CallsPrivatelyCan(id, fuel) ==
    \/ HandlerCode(id).privatelyCan
    \/ /\ fuel > 0
       /\ HandlerCode(id).runs # ""
       /\ plugins.commands[HandlerCode(id).runs].kind = "function"
       /\ CallsPrivatelyCan(plugins.commands[HandlerCode(id).runs].id, fuel - 1)
\* variant of PrivatelyCan: the permission is checked and nothing is written
PrivatelyCanReadOnly(handler, handlers) == handlers
\* chat.ts:870-871: privatelyCan marks the handler of the context
PrivatelyCan(handler, handlers) == [handlers EXCEPT ![handler].isPrivate = TRUE]
\* the handler functions that a message can resolve to: those in
\* Chat.commands and in its nested tables
Registered ==
    {plugins.commands[key].id :
        key \in {k \in CommandKeys : plugins.commands[k].kind = "function"}}
    \cup UNION {{plugins.commands[key].table[i].id :
                    i \in {j \in DOMAIN plugins.commands[key].table :
                              plugins.commands[key].table[j].kind = "function"}} :
                key \in {k \in CommandKeys : plugins.commands[k].kind = "object"}}
\* parse() of a message that resolves to the handler `id` (chat.ts:424-430,
\* 446-447), in what it does to the handlers' properties: this.handler is
\* the function, and it is run
InvokeCommand(id) ==
    /\ id \in Registered
    /\ plugins' =
          [plugins EXCEPT !.handlers =
              IF CallsPrivatelyCan(id, Cardinality(HandlerIds))
              THEN PrivatelyCan(id, @)
              ELSE @,
                          !.last = id]
    /\ UNCHANGED <<dispatchVars, resolveVars, filterVars, lengthVars, utilityVars>>

(***************************************************************************)
(* PatternTester (server/chat.ts:117-170), the tester of the texts that    *)
(* are one multi-line command                                              *)
(***************************************************************************)
\* the patterns registered with Chat.multiLinePattern: one that ends with a
\* space and one that does not
MultiLineElements == {<<"/", "q", "u", "o", "t", "e", " ">>, <<"/", "h", "t", "m", "l">>}
\* chat.ts:129-131
FastNormalize(elem) == DropLast(elem, 1)
\* chat.ts:141: /^[^ ^$?|()[\]]+ $/.test(elem)
IsFastElement(elem) ==
    /\ Len(elem) >= 2 /\ elem[Len(elem)] = " "
    /\ \A i \in 1..(Len(elem) - 1) :
           elem[i] \notin {" ", "^", "$", "?", "|", "(", ")", "[", "]"}
\* chat.ts:138-146: this.fastElements after register(...)
FastElements == {FastNormalize(elem) : elem \in {e \in MultiLineElements : IsFastElement(e)}}
\* chat.ts:133
SlowElements == {elem \in MultiLineElements : FastNormalize(elem) \notin FastElements}
\* chat.ts:148-155; the slow elements are plain texts, and the pattern made
\* of them matches without regard to letter case at the start of the text
TestCommand(text) ==
    \/ (IF IndexOf(text, " ") >= 0 THEN Slice(text, 0, IndexOf(text, " ")) ELSE text)
          \in FastElements
    \/ /\ SlowElements # {}
       /\ \E elem \in SlowElements : StartsWith(ToLower(text), ToLower(elem))

\* the words that open a PM, chat.ts:161 and 164
PmKeywords == {<<"p", "m">>, <<"w">>, <<"w", "h", "i", "s", "p", "e", "r">>, <<"m", "s", "g">>}
\* the places of the character c in s at or after place i
PlacesFrom(s, c, i) == {k \in DOMAIN s : k >= i /\ s[k] = c}
\* where a match of /\/(?:pm|w|whisper|msg) [^,]*, ?/i that begins at place
\* i of the text ends, or 0 when there is none: the word up to the first
\* space, anything up to the first comma (line ends too), the comma, and
\* the space after it when there is one
PmPrefixEnd(text, i) ==
    IF i > Len(text) \/ text[i] # "/" \/ PlacesFrom(text, " ", i) = {} THEN 0
    ELSE LET sp == SetMin(PlacesFrom(text, " ", i))
         IN  IF ToLower(SubSeq(text, i + 1, sp - 1)) \notin PmKeywords
                    \/ PlacesFrom(text, ",", sp) = {}
             THEN 0
             ELSE LET c == SetMin(PlacesFrom(text, ",", sp))
                  IN  IF c < Len(text) /\ text[c + 1] = " " THEN c + 1 ELSE c
\* text.split('\n')
RECURSIVE Lines(_)
Lines(text) ==
    IF PlacesFrom(text, "\n", 1) = {} THEN <<text>>
    ELSE <<SubSeq(text, 1, SetMin(PlacesFrom(text, "\n", 1)) - 1)>>
             \o Lines(SubSeq(text, SetMin(PlacesFrom(text, "\n", 1)) + 1, Len(text)))
\* chat.ts:161: the match of /^(\/(?:pm|w|whisper|msg) [^,]*, ?)(.*)/i, its
\* first group and its second, which stops at a line end
PmMatches(text) ==
    [matched |-> PmPrefixEnd(text, 1) > 0,
     prefix |-> SubSeq(text, 1, PmPrefixEnd(text, 1)),
     rest |-> Lines(SubSeq(text, PmPrefixEnd(text, 1) + 1, Len(text)))[1]]
\* chat.ts:163
EveryLineStartsWith(text, prefix) ==
    \A k \in DOMAIN Lines(text) : StartsWith(Lines(text)[k], prefix)
\* variant of WithoutPmPrefixes: nothing is removed
WithPmPrefixes(text, i) == SubSeq(text, i, Len(text))
\* chat.ts:164: text.replace(/\n\/(?:pm|w|whisper|msg) [^,]*, ?/gi, '\n')
\* from place i on
RECURSIVE WithoutPmPrefixes(_, _)
WithoutPmPrefixes(text, i) ==
    IF i > Len(text) THEN <<>>
    ELSE IF text[i] = "\n" /\ PmPrefixEnd(text, i + 1) > 0
    THEN <<"\n">> \o WithoutPmPrefixes(text, PmPrefixEnd(text, i + 1) + 1)
    ELSE <<text[i]>> \o WithoutPmPrefixes(text, i + 1)
\* chat.ts:156-169
PatternTest(text) ==
    IF PlacesFrom(text, "\n", 1) = {} THEN RetNull
    ELSE IF TestCommand(text) THEN RetString(text)
    ELSE IF PmMatches(text).matched /\ TestCommand(PmMatches(text).rest)
    THEN IF EveryLineStartsWith(text, PmMatches(text).prefix)
         THEN RetString(WithoutPmPrefixes(text, 1))
         ELSE RetString(text)
    ELSE RetNull

\* the texts given to the tester: one to three lines
FirstLines ==
    {<<"/", "p", "m", " ", "b", "o", "b", ",", " ", "/", "q", "u", "o", "t", "e", " ", "a">>, <<"/", "P", "M", " ", "b", "o", "b", ",", " ", "/", "h", "t", "m", "l", " ", "x">>, <<"/", "w", " ", "b", "o", "b", ",", "/", "q", "u", "o", "t", "e", " ", "a">>, <<"/", "m", "s", "g", " ", "b", "o", "b", ",", " ", "h", "e", "l", "l", "o">>,
     <<"/", "q", "u", "o", "t", "e", " ", "a">>, <<"/", "p", "m", " ", "b", "o", "b", " ", "/", "q", "u", "o", "t", "e", " ", "a">>, <<"/", "p", "m", " ", "b", "o", "b", ",", " ", "/", "Q", "U", "O", "T", "E", " ", "a">>, <<"/", "w", "h", "i", "s", "p", "e", "r", " ", "a", "l", ",", " ", "/", "H", "T", "M", "L">>}
LaterLines ==
    {<<"/", "p", "m", " ", "b", "o", "b", ",", " ", "b">>, <<"/", "P", "M", " ", "b", "o", "b", ",", " ", "b">>, <<"/", "w", " ", "b", "o", "b", ",", " ", "b">>, <<"/", "w", " ", "b", "o", "b", ",", "b">>, <<"b">>, <<>>,
     <<"/", "p", "m", " ", "b", "o", "b", ",", " ", "/", "p", "m", " ", "b", "o", "b", ",", " ", "c">>, <<"/", "m", "s", "g", " ", "b", "o", "b", ",", " ", "b">>, <<"/", "w", "h", "i", "s", "p", "e", "r", " ", "a", "l", ",", " ", "b">>}
PatternTexts ==
    FirstLines
    \cup {a \o <<"\n">> \o b : a \in FirstLines, b \in LaterLines}
    \cup {a \o <<"\n">> \o b \o <<"\n">> \o c : a \in FirstLines, b \in LaterLines, c \in LaterLines}
NoPatternInput == [phase |-> "idle", text |-> <<>>]
PatternInputs == {[phase |-> "ready", text |-> text] : text \in PatternTexts}
PatternStart(inputs) ==
    /\ ptIn \in inputs
    /\ ptOut = RetNull
\* Chat.multiLinePattern.test(text)
MultiLineTest ==
    /\ ptIn.phase = "ready"
    /\ ptIn' = [ptIn EXCEPT !.phase = "done"]
    /\ ptOut' = PatternTest(ptIn.text)
    /\ UNCHANGED <<dispatchVars, resolveVars, filterVars, lengthVars, pluginVars, htmlVars,
                   modlogVars>>

(***************************************************************************)
(* CommandContext.canHTML (server/chat.ts:1227-1332)                       *)
(***************************************************************************)
\* s.includes(t)
ContainsText(s, t) == \E i \in 0..(Len(s) - Len(t)) : SubSeq(s, i + 1, i + Len(t)) = t
\* where t first begins in s at or after place i, or 0
FirstAt(s, t, i) ==
    IF \E k \in i..(Len(s) - Len(t) + 1) : SubSeq(s, k, k + Len(t) - 1) = t
    THEN SetMin({k \in i..(Len(s) - Len(t) + 1) : SubSeq(s, k, k + Len(t) - 1) = t})
    ELSE 0
\* chat.ts:1230: />here.?</i or /click here/i
ClickHere(content) ==
    \/ ContainsText(ToLower(content), <<"c", "l", "i", "c", "k", " ", "h", "e", "r", "e">>)
    \/ ContainsText(ToLower(content), <<">", "h", "e", "r", "e", "<">>)
    \/ \E i \in DOMAIN content :
          /\ i + 6 <= Len(content)
          /\ ToLower(SubSeq(content, i, i + 4)) = <<">", "h", "e", "r", "e">>
          /\ content[i + 5] # "\n" /\ content[i + 6] = "<"
\* where the match of /<!--.*?-->|<\/?[^<>]*/ that begins at the `<` at
\* place i ends: a comment on one line, or else the `<` and what follows up
\* to the next `<` or `>`
TagEnd(content, i) ==
    IF /\ i + 3 <= Len(content) /\ SubSeq(content, i, i + 3) = <<"<", "!", "-", "-">>
       /\ FirstAt(content, <<"-", "-", ">">>, i + 4) > 0
       /\ \A k \in (i + 4)..(FirstAt(content, <<"-", "-", ">">>, i + 4) - 1) : content[k] # "\n"
    THEN FirstAt(content, <<"-", "-", ">">>, i + 4) + 2
    ELSE IF \E k \in (i + 1)..Len(content) : content[k] \in {"<", ">"}
    THEN SetMin({k \in (i + 1)..Len(content) : content[k] \in {"<", ">"}}) - 1
    ELSE Len(content)
\* chat.ts:1236: htmlContent.match(/<!--.*?-->|<\/?[^<>]*/g), from place i on
RECURSIVE HtmlTags(_, _)
HtmlTags(content, i) ==
    IF PlacesFrom(content, "<", i) = {} THEN <<>>
    ELSE <<SubSeq(content, SetMin(PlacesFrom(content, "<", i)),
                  TagEnd(content, SetMin(PlacesFrom(content, "<", i))))>>
            \o HtmlTags(content, TagEnd(content, SetMin(PlacesFrom(content, "<", i))) + 1)
\* chat.ts:1238-1240
ILLEGAL_TAGS == {<<"s", "c", "r", "i", "p", "t">>, <<"h", "e", "a", "d">>, <<"b", "o", "d", "y">>, <<"h", "t", "m", "l">>, <<"c", "a", "n", "v", "a", "s">>, <<"b", "a", "s", "e">>, <<"m", "e", "t", "a">>, <<"l", "i", "n", "k">>}
\* chat.ts:1241-1248
LEGAL_AUTOCLOSE_TAGS ==
    {<<"b", "r">>, <<"a", "r", "e", "a">>, <<"e", "m", "b", "e", "d">>, <<"h", "r">>, <<"i", "m", "g">>, <<"s", "o", "u", "r", "c", "e">>, <<"t", "r", "a", "c", "k">>, <<"i", "n", "p", "u", "t">>, <<"w", "b", "r">>,
     <<"c", "o", "l">>, <<"p">>, <<"l", "i">>, <<"d", "t">>, <<"d", "d">>, <<"o", "p", "t", "i", "o", "n">>, <<"t", "r">>, <<"t", "h">>, <<"t", "d">>, <<"t", "h", "e", "a", "d">>,
     <<"t", "b", "o", "d", "y">>, <<"t", "f", "o", "o", "t">>, <<"c", "o", "l", "g", "r", "o", "u", "p">>, <<"p", "s", "i", "c", "o", "n">>}
\* chat.ts:1251
IsClosingTag(tag) == CharAt(tag, 1) = <<"/">>
\* s.replace(/\s+/, ' '): the first run of whitespace becomes one space
FirstSpaceRunAsOne(s) ==
    IF \A k \in DOMAIN s : s[k] \notin Whitespace THEN s
    ELSE LET a == SetMin({k \in DOMAIN s : s[k] \in Whitespace})
             b == IF \E k \in a..Len(s) : s[k] \notin Whitespace
                  THEN SetMin({k \in a..Len(s) : s[k] \notin Whitespace})
                  ELSE Len(s) + 1
         IN  SubSeq(s, 1, a - 1) \o <<" ">> \o SubSeq(s, b, Len(s))
\* chat.ts:1252
TagContent(tag) == Trim(FirstSpaceRunAsOne(SliceFrom(tag, IF IsClosingTag(tag) THEN 2 ELSE 1)))
\* chat.ts:1253-1254
TagName(tag) ==
    ToLower(IF IndexOf(TagContent(tag), " ") >= 0
            THEN Slice(TagContent(tag), 0, IndexOf(TagContent(tag), " "))
            ELSE TagContent(tag))
\* chat.ts:1270: /^[a-z]+[0-9]?$/.test(tagName)
PlainTagName(tagName) ==
    /\ tagName # <<>> /\ tagName[1] \in LowerLetters
    /\ \A k \in 1..(Len(tagName) - 1) : tagName[k] \in LowerLetters
    /\ tagName[Len(tagName)] \in (LowerLetters \cup Digits)
\* variant of Extraneous: a closing tag closes whatever is open
ExtraneousNever(tagName, open) == FALSE
\* chat.ts:1258-1266: a closing tag with nothing open, or with another tag
\* open last
Extraneous(tagName, open) == open = <<>> \/ tagName # open[Len(open)]
\* chat.ts:1249-1321: the loop over the tags from the i-th on, with the
\* stack of the open tags; imagesPass and buttonsPass are the outcomes of
\* the checks of the attributes of img and button tags (1278-1320)
RECURSIVE TagsPass(_, _, _, _, _)
TagsPass(tags, i, open, imagesPass, buttonsPass) ==
    IF i > Len(tags) THEN open = <<>>
    ELSE IF TagName(tags[i]) = <<"!", "-", "-">> THEN TagsPass(tags, i + 1, open, imagesPass, buttonsPass)
    ELSE IF IsClosingTag(tags[i])
    THEN IF TagName(tags[i]) \in LEGAL_AUTOCLOSE_TAGS
         THEN TagsPass(tags, i + 1, open, imagesPass, buttonsPass)
         ELSE IF Extraneous(TagName(tags[i]), open) THEN FALSE
         ELSE TagsPass(tags, i + 1, DropLast(open, 1), imagesPass, buttonsPass)
    ELSE IF TagName(tags[i]) \in ILLEGAL_TAGS \/ ~PlainTagName(TagName(tags[i])) THEN FALSE
    ELSE IF TagName(tags[i]) = <<"i", "m", "g">> /\ ~imagesPass THEN FALSE
    ELSE IF TagName(tags[i]) = <<"b", "u", "t", "t", "o", "n">> /\ ~buttonsPass THEN FALSE
    ELSE TagsPass(tags, i + 1,
                  IF TagName(tags[i]) \in LEGAL_AUTOCLOSE_TAGS THEN open
                  ELSE Append(open, TagName(tags[i])),
                  imagesPass, buttonsPass)
\* chat.ts:1227-1332
CanHTML(htmlContent, imagesPass, buttonsPass) ==
    IF Trim(htmlContent) = <<>> THEN RetString(<<>>)
    ELSE IF ClickHere(Trim(htmlContent)) THEN RetNull
    ELSE IF TagsPass(HtmlTags(Trim(htmlContent), 1), 1, <<>>, imagesPass, buttonsPass)
    THEN RetString(Trim(htmlContent))
    ELSE RetNull

\* the pieces the contents are made of, each with what it is: an opening
\* or a closing tag of a name, a void or auto-close tag, a comment, an
\* illegal tag, or text
MaxPieces == 4
HtmlPieces ==
    << [text |-> <<"<", "b", ">">>, is |-> "open", name |-> "b"],
       [text |-> <<"<", "/", "b", ">">>, is |-> "close", name |-> "b"],
       [text |-> <<"<", "I", " ", "c", "l", "a", "s", "s", "=", "x", ">">>, is |-> "open", name |-> "i"],
       [text |-> <<"<", "/", "i", " ", ">">>, is |-> "close", name |-> "i"],
       [text |-> <<"<", "b", "r", ">">>, is |-> "void", name |-> "br"],
       [text |-> <<"<", "/", "p", ">">>, is |-> "void", name |-> "p"],
       [text |-> <<"<", "!", "-", "-", " ", "<", "b", ">", " ", "-", "-", ">">>, is |-> "comment", name |-> ""],
       [text |-> <<"<", "s", "c", "r", "i", "p", "t", ">">>, is |-> "illegal", name |-> "script"],
       [text |-> <<" ", "h", "i", " ">>, is |-> "text", name |-> ""],
       [text |-> <<"<", "b", "u", "t", "t", "o", "n", ">">>, is |-> "open", name |-> "button"],
       [text |-> <<"<", "/", "b", "u", "t", "t", "o", "n", ">">>, is |-> "close", name |-> "button"],
       [text |-> <<"<", "i", "m", "g", " ", "s", "r", "c", "=", "x", ">">>, is |-> "void", name |-> "img"] >>
\* the text of a content given as the numbers of its pieces
RECURSIVE TextOf(_)
TextOf(pieces) ==
    IF pieces = <<>> THEN <<>> ELSE HtmlPieces[Head(pieces)].text \o TextOf(Tail(pieces))
NoHtmlInput == [phase |-> "idle", pieces |-> <<>>]
HtmlInputs ==
    {[phase |-> "ready", pieces |-> pieces] :
        pieces \in UNION {[1..n -> DOMAIN HtmlPieces] : n \in 0..MaxPieces}}
HtmlStart(inputs) ==
    /\ htIn \in inputs
    /\ htOut = RetNull
\* this.canHTML(content) in a handler
CanHTMLCall(imagesPass, buttonsPass) ==
    /\ htIn.phase = "ready"
    /\ htIn' = [htIn EXCEPT !.phase = "done"]
    /\ htOut' = CanHTML(TextOf(htIn.pieces), imagesPass, buttonsPass)
    /\ UNCHANGED <<dispatchVars, resolveVars, filterVars, lengthVars, pluginVars, patternVars,
                   modlogVars>>

(***************************************************************************)
(* Modlog: the streams of the moderation log                               *)
(***************************************************************************)
\* the room ids that get a modlog: two rooms with a stream of their own and
\* two battles, which share the stream 'battle'
ModlogIDs == {<<"l", "o", "b", "b", "y">>, <<"t", "e", "c", "h">>, <<"b", "a", "t", "t", "l", "e", "-", "1">>, <<"b", "a", "t", "t", "l", "e", "-", "2">>}
\* the values of a stream entry: not there (get() returns undefined),
\* destroyed (null), or the append stream of a file
NoStream == [t |-> "undefined", file |-> <<>>]
NullStream == [t |-> "null", file |-> <<>>]
\* FS(`${logPath}/modlog_${id}.txt`).createAppendStream()
CreateAppendStream(id) == [t |-> "stream", file |-> <<"m", "o", "d", "l", "o", "g", "_">> \o id]
StreamOpen(stream) == stream.t = "stream"

\* a Map object: its entries, which get/set/has/keys work on, and its own
\* enumerable properties, which are what `for (... in ...)` goes through;
\* set() adds an entry, never a property
NewMap(keys) == [entries |-> [k \in keys |-> NoStream], props |-> {}]
MapGet(map, key) == map.entries[key]
MapSet(map, key, value) == [map EXCEPT !.entries[key] = value]
\* the keys that `for (const id in map)` visits
ForIn(map) == map.props

\* part_001:138-140 getSharedID: the id of the shared stream, or <<>> for
\* false
GetSharedID(roomid) ==
    IF IndexOf(roomid, "-") >= 0 THEN ToID(SubSeq(roomid, 1, IndexOf(roomid, "-")))
    ELSE <<>>
SharedIDs == {GetSharedID(r) : r \in ModlogIDs} \ {<<>>}

\* new Modlog(path), part_001:106-118
NewModlog ==
    [streams |-> NewMap(ModlogIDs), sharedStreams |-> NewMap(SharedIDs),
     ending |-> {}, all |-> "idle", allWaits |-> {}, touched |-> FALSE,
     initialized |-> {}, last |-> "none"]
ModlogStart == modlog = NewModlog

\* part_001:123-136 initialize(roomid)
Initialized(m, roomid) ==
    LET sharedStreamId == GetSharedID(roomid)
        stream == MapGet(m.sharedStreams, sharedStreamId)
    IN  IF StreamOpen(MapGet(m.streams, roomid)) THEN m
        ELSE IF sharedStreamId = <<>>
        THEN [m EXCEPT !.streams = MapSet(@, roomid, CreateAppendStream(roomid))]
        ELSE IF ~StreamOpen(stream)
        THEN [m EXCEPT !.sharedStreams =
                          MapSet(@, sharedStreamId, CreateAppendStream(sharedStreamId)),
                       !.streams = MapSet(@, roomid, CreateAppendStream(sharedStreamId))]
        ELSE [m EXCEPT !.streams = MapSet(@, roomid, stream)]
\* part_001:148-152 write(roomid, message): the uninitialized-stream Error
\* is thrown for an entry that is undefined or null
WriteThrows(m, roomid) == ~StreamOpen(MapGet(m.streams, roomid))
\* part_001:154-158 destroy(roomid) up to its await: the call waits for
\* stream.writeEnd() when the room has an open stream of its own
DestroyWaits(m, roomid) ==
    StreamOpen(MapGet(m.streams, roomid)) /\ GetSharedID(roomid) = <<>>
\* part_001:154-161 destroy(roomid) as far as it runs in the caller's turn
Destroyed(m, roomid) ==
    IF DestroyWaits(m, roomid)
    THEN [m EXCEPT !.streams = MapSet(@, roomid, NullStream),
                   !.ending = @ \cup {roomid}]
    ELSE [m EXCEPT !.streams = MapSet(@, roomid, NullStream)]
\* part_001:165-167: destroy(id) for each id of the loop, in turn
RECURSIVE DestroyedEach(_, _)
DestroyedEach(m, ids) ==
    IF ids = {} THEN m
    ELSE LET id == CHOOSE x \in ids : TRUE
         IN DestroyedEach(Destroyed(m, id), ids \ {id})

\* Modlog.initialize(roomid)
ModlogInitialize(roomid) ==
    /\ modlog' = [Initialized(modlog, roomid) EXCEPT
                     !.touched = TRUE, !.initialized = @ \cup {roomid}]
    /\ UNCHANGED <<dispatchVars, resolveVars, filterVars, lengthVars, pluginVars,
                   patternVars, htmlVars>>
\* Modlog.write(roomid, message)
ModlogWrite(roomid) ==
    /\ modlog' = [modlog EXCEPT !.last = IF WriteThrows(modlog, roomid)
                                         THEN "threw" ELSE "written"]
    /\ UNCHANGED <<dispatchVars, resolveVars, filterVars, lengthVars, pluginVars,
                   patternVars, htmlVars>>
\* Modlog.destroy(roomid), up to the await or, without one, to the end
ModlogDestroy(roomid) ==
    /\ modlog' = Destroyed(modlog, roomid)
    /\ UNCHANGED <<dispatchVars, resolveVars, filterVars, lengthVars, pluginVars,
                   patternVars, htmlVars>>
\* part_001:158-160: stream.writeEnd() has finished and destroy(roomid)
\* goes on after its await
ModlogWriteEnd(roomid) ==
    /\ roomid \in modlog.ending
    /\ modlog' = [modlog EXCEPT !.streams = MapSet(@, roomid, NullStream),
                                !.ending = @ \ {roomid}]
    /\ UNCHANGED <<dispatchVars, resolveVars, filterVars, lengthVars, pluginVars,
                   patternVars, htmlVars>>
\* part_001:163-169 destroyAll(), up to the Promise.all it returns
ModlogDestroyAll ==
    /\ modlog.all # "waiting"
    /\ modlog' = [DestroyedEach(modlog, ForIn(modlog.streams)) EXCEPT
                     !.all = "waiting", !.touched = FALSE,
                     !.allWaits = {id \in ForIn(modlog.streams) :
                                     DestroyWaits(modlog, id)}]
    /\ UNCHANGED <<dispatchVars, resolveVars, filterVars, lengthVars, pluginVars,
                   patternVars, htmlVars>>
\* part_001:168: the promise of destroyAll() is fulfilled once every
\* destroy() it started has returned
ModlogDestroyAllDone ==
    /\ modlog.all = "waiting"
    /\ modlog.allWaits \cap modlog.ending = {}
    /\ modlog' = [modlog EXCEPT !.all = "done", !.allWaits = {}]
    /\ UNCHANGED <<dispatchVars, resolveVars, filterVars, lengthVars, pluginVars,
                   patternVars, htmlVars>>

\* the utilities are not in use
UtilityIdle == PatternStart({NoPatternInput}) /\ HtmlStart({NoHtmlInput}) /\ ModlogStart

(***************************************************************************)
(* Specifications                                                          *)
(***************************************************************************)
vars == <<stack, users, rooms, now, out, served, pending, granted, said, told,
          banwords,
          rsIn, rsOut, rsRef,
          flIn, flMessage, flSeen, flResult, lnIn, lnOut, plugins, ptIn, ptOut,
          htIn, htOut, modlog>>

\* nothing has been said or broadcast yet; the rooms' word lists are one
\* of `lists` and no pattern has been built
DispatchStartWith(lists) ==
    /\ stack = <<>>
    /\ users = [u \in Users |-> [lastMessage |-> <<>>, lastMessageTime |-> 0]]
    /\ rooms = [r \in Rooms |-> [lastBroadcast |-> <<>>, lastBroadcastTime |-> 0]]
    /\ now = StartTime
    /\ out = <<>>
    /\ served = 0
    /\ pending = <<>>
    /\ granted = <<>>
    /\ said = [u \in Users |-> [r \in Rooms |-> 0]]
    /\ told = [u \in Users |-> [text |-> <<>>, time |-> 0]]
    /\ \E list \in lists :
          banwords = [r \in Rooms |-> [words |-> list[r], regex |-> NoRegex]]
\* no room has ban-words
DispatchStart == DispatchStartWith({[r \in Rooms |-> {}]})
ResolveStart(inputs) ==
    /\ rsIn \in inputs
    /\ rsOut = NullCmd(0)
    /\ rsRef = NullCmd(0)
FilterStart(inputs) ==
    /\ flIn \in inputs
    /\ flMessage = flIn.original
    /\ flSeen = <<>>
    /\ flResult = RetUndefined
LengthStart(inputs) ==
    /\ lnIn \in inputs
    /\ lnOut = [ok |-> FALSE, text |-> <<>>]

\* who sends a top-level message where: every user to the two rooms, and
\* the voiced user also to the console and in a PM
Arrivals ==
    {[user |-> u, room |-> r, pmTarget |-> NoUser] : u \in Users \ {"carol"}, r \in PlainRooms}
    \cup {[user |-> "alice", room |-> NoRoom, pmTarget |-> NoUser],
          [user |-> "alice", room |-> NoRoom, pmTarget |-> "zarel"]}
\* the messages that arrive
ChatMessages ==
    {<<"h", "e", "l", "l", "o">>, <<"!", "!", "t", "e", "s", "t">>, <<" ", "/", "s", "t", "o", "n", "e">>, <<"/", "p", "l", "u", "g", " ", "h", "i">>, <<"!", "p", "l", "u", "g", " ", "h", "i">>, <<"!", "s", "t", "o", "n", "e", " ", "x">>,
     <<"/", "s", "t", "o", "n", "e">>, <<"/", "n", "o", "s", "u", "c", "h">>, <<"/", "c", "h", "a", "t", "l", "o", "g">>, <<"/", "s", "l">>, <<"/", "l", "o", "o", "p">>,
     <<"!", "n", "o", "s", "u", "c", "h">>, <<"!">>, <<"!", "?">>}
\* ms between two messages: at the end of the broadcast cooldown, just
\* past it, and at the end of the duplicate-message cooldown
Delays == {BROADCAST_COOLDOWN, BROADCAST_COOLDOWN + 1, MESSAGE_COOLDOWN}

Init ==
    /\ DispatchStart
    /\ ResolveStart({NoInput})
    /\ FilterStart({NoFilterInput})
    /\ LengthStart({NoLengthInput})
    /\ PluginStart
    /\ UtilityIdle
Next ==
    \/ \E a \in Arrivals, m \in ChatMessages, d \in Delays :
          ChatParse(a.user, a.room, a.pmTarget, m, d)
    \/ ParseOutsideRoom
    \/ ParseChat
    \/ ParseRun
    \/ Return
    \/ Finish
Spec == Init /\ [][Next]_vars

\* The dispatcher with handlers that return deferred values: the
\* messages go to an async command or are plain chat or a command that
\* throws, from members of the rooms, in a PM and on the console; no
\* message makes a sub-invocation
DeferredArrivals ==
    {[user |-> "alice", room |-> "tech", pmTarget |-> NoUser],
     [user |-> "bob", room |-> "tech", pmTarget |-> NoUser],
     [user |-> "guest", room |-> "lobby", pmTarget |-> NoUser],
     [user |-> "alice", room |-> NoRoom, pmTarget |-> NoUser],
     [user |-> "alice", room |-> NoRoom, pmTarget |-> "zarel"]}
DeferredMessages == {<<"/", "l", "a", "t", "e", "r", " ", "h", "i">>, <<"/", "l", "a", "t", "e", "r">>, <<"/", "p", "l", "u", "g", " ", "h", "i">>, <<"h", "e", "l", "l", "o">>}
NextDeferred ==
    \/ \E a \in DeferredArrivals, m \in DeferredMessages :
          ChatParse(a.user, a.room, a.pmTarget, m, MESSAGE_COOLDOWN)
    \/ ParseChat
    \/ ParseRun
    \/ Finish
    \/ \E k \in DOMAIN pending : Settle(k)
SpecDeferred == Init /\ [][NextDeferred]_vars

\* The dispatcher with broadcasts only: the voiced user and the
\* administrator invoke the stone command with two targets in the rooms, a
\* few seconds or a full cooldown apart
MaxBroadcasts == 3
BroadcastArrivals ==
    {[user |-> "alice", room |-> "lobby"], [user |-> "alice", room |-> "tech"],
     [user |-> "zarel", room |-> "lobby"]}
BroadcastMessages == {<<"!", "s", "t", "o", "n", "e", " ", "x">>, <<"!", "s", "t", "o", "n", "e", " ", "y">>, <<"h", "e", "l", "l", "o">>}
BroadcastDelays == {BROADCAST_COOLDOWN \div 4, BROADCAST_COOLDOWN + 1}
BroadcastParse(u, room, message, delay) ==
    Arrive(u, room, NoUser, message, delay, MaxBroadcasts)
NextBroadcast ==
    \/ \E a \in BroadcastArrivals, m \in BroadcastMessages, d \in BroadcastDelays :
          BroadcastParse(a.user, a.room, m, d)
    \/ ParseChat
    \/ ParseRun
    \/ Finish
SpecBroadcast == Init /\ [][NextBroadcast]_vars

\* The dispatcher with plain chat only, around the slow mode of the tech
\* room: users without rank and the voiced user talk in the two rooms, one
\* millisecond less than the room's interval or the full interval apart
MaxTalks == 3
TalkArrivals ==
    {[user |-> "carol", room |-> "lobby"], [user |-> "carol", room |-> "tech"],
     [user |-> "bob", room |-> "tech"], [user |-> "alice", room |-> "tech"]}
TalkMessages == {<<"h", "e", "l", "l", "o">>, <<"h", "i">>}
TalkDelays ==
    {1000 * RoomSettings("tech").slowchat - 1, 1000 * RoomSettings("tech").slowchat}
TalkParse(u, room, message, delay) == Arrive(u, room, NoUser, message, delay, MaxTalks)
NextTalk ==
    \/ \E a \in TalkArrivals, m \in TalkMessages, d \in TalkDelays :
          TalkParse(a.user, a.room, m, d)
    \/ ParseChat
    \/ Finish
SpecTalk == Init /\ [][NextTalk]_vars

\* The dispatcher with plain chat only, around the duplicate-message
\* cooldown: a user without rank talks in the lobby and in the tech room
\* and the administrator in the lobby, one millisecond less than the
\* cooldown or the full cooldown apart; one text ends with a space
MaxDuplicates == 3
DuplicateArrivals ==
    {[user |-> "carol", room |-> "lobby"], [user |-> "carol", room |-> "tech"],
     [user |-> "zarel", room |-> "lobby"]}
DuplicateMessages == {<<"h", "e", "l", "l", "o">>, <<"h", "e", "l", "l", "o", " ">>, <<"h", "i">>}
DuplicateDelays == {MESSAGE_COOLDOWN - 1, MESSAGE_COOLDOWN}
DuplicateParse(u, room, message, delay) ==
    Arrive(u, room, NoUser, message, delay, MaxDuplicates)
NextDuplicate ==
    \/ \E a \in DuplicateArrivals, m \in DuplicateMessages, d \in DuplicateDelays :
          DuplicateParse(a.user, a.room, m, d)
    \/ ParseChat
    \/ Finish
SpecDuplicate == Init /\ [][NextDuplicate]_vars

\* The dispatcher with commands that call this.parse(msg): with and without
\* a broadcast, in a room, in a PM, and from a user outside the lobby
MaxSubServed == 2
SubArrivals ==
    {[user |-> "alice", room |-> "lobby", pmTarget |-> NoUser],
     [user |-> "bob", room |-> "lobby", pmTarget |-> NoUser],
     [user |-> "alice", room |-> NoRoom, pmTarget |-> "zarel"]}
SubMessages == {<<"!", "s", "t", "o", "n", "e">>, <<"/", "s", "t", "o", "n", "e">>, <<"/", "s", "l">>, <<"/", "c", "h", "a", "t", "l", "o", "g">>, <<"/", "l", "o", "o", "p">>, <<"!", "s", "t", "o", "n", "e", " ", "x">>}
SubParse(u, room, pmTarget, message) ==
    Arrive(u, room, pmTarget, message, BROADCAST_COOLDOWN + 1, MaxSubServed)
NextSub ==
    \/ \E a \in SubArrivals, m \in SubMessages : SubParse(a.user, a.room, a.pmTarget, m)
    \/ ParseRun
    \/ Return
    \/ Finish
SpecSub == Init /\ [][NextSub]_vars

\* The dispatcher with messages that start with whitespace: a command symbol
\* after one or two spaces, ordinary text after a space, and a command as it
\* is normally typed; from members of a room, from a user outside the lobby,
\* from a guest outside the tech room, and in a PM
MaxEscapes == 2
EscapeArrivals ==
    {[user |-> "alice", room |-> "lobby", pmTarget |-> NoUser],
     [user |-> "bob", room |-> "lobby", pmTarget |-> NoUser],
     [user |-> "guest", room |-> "tech", pmTarget |-> NoUser],
     [user |-> "alice", room |-> NoRoom, pmTarget |-> "zarel"]}
EscapeMessages ==
    {<<" ", "/", "s", "t", "o", "n", "e">>, <<" ", "!", "s", "t", "o", "n", "e", " ", "x">>, <<" ", " ", "!", "s", "t", "o", "n", "e">>, <<" ", "/", "/", "x">>, <<" ", "!", "!">>, <<" ", "h", "e", "l", "l", "o">>, <<"/", "s", "t", "o", "n", "e">>}
EscapeParse(u, room, pmTarget, message) ==
    Arrive(u, room, pmTarget, message, MESSAGE_COOLDOWN, MaxEscapes)
NextEscape ==
    \/ \E a \in EscapeArrivals, m \in EscapeMessages :
          EscapeParse(a.user, a.room, a.pmTarget, m)
    \/ ParseOutsideRoom
    \/ ParseChat
    \/ ParseRun
    \/ Finish
SpecEscape == Init /\ [][NextEscape]_vars

\* The moderation log: streams are initialized, written to and destroyed, one
\* by one and all at once, in any order
NextModlog ==
    \/ \E roomid \in ModlogIDs : ModlogInitialize(roomid)
    \/ \E roomid \in ModlogIDs : ModlogWrite(roomid)
    \/ \E roomid \in ModlogIDs : ModlogDestroy(roomid)
    \/ \E roomid \in ModlogIDs : ModlogWriteEnd(roomid)
    \/ ModlogDestroyAll
    \/ ModlogDestroyAllDone
SpecModlog == Init /\ [][NextModlog]_vars

\* The dispatcher with a command that checks the broadcast, waits for a
\* deferred value and then broadcasts, next to one that broadcasts at once:
\* a user with the 'show' capability sends them in the tech room and in the
\* lobby, a quarter of the broadcast cooldown or more than the cooldown apart
MaxAwaits == 3
AwaitArrivals == {[user |-> "alice", room |-> "tech"], [user |-> "alice", room |-> "lobby"]}
AwaitMessages == {<<"!", "s", "l", "o", "w", " ", "x">>, <<"!", "S", "L", "O", "W", " ", "x">>, <<"!", "s", "t", "o", "n", "e", " ", "x">>}
AwaitDelays == {BROADCAST_COOLDOWN \div 4, BROADCAST_COOLDOWN + 1}
AwaitParse(u, room, message, delay) == Arrive(u, room, NoUser, message, delay, MaxAwaits)
NextAwait ==
    \/ \E a \in AwaitArrivals, m \in AwaitMessages, d \in AwaitDelays :
          AwaitParse(a.user, a.room, m, d)
    \/ ParseRun
    \/ Finish
    \/ \E k \in DOMAIN pending : Settle(k)
SpecAwait == Init /\ [][NextAwait]_vars

\* The dispatcher with plain chat only, in and out of a high traffic room:
\* a user without rank talks in the hall and in the lobby, and a user with
\* the 'show' capability and the administrator talk in the hall; the texts
\* have no letter, one letter or two letters, among digits and symbols
MaxTraffic == 2
TrafficArrivals ==
    {[user |-> "carol", room |-> "hall"], [user |-> "carol", room |-> "lobby"],
     [user |-> "alice", room |-> "hall"], [user |-> "zarel", room |-> "hall"]}
TrafficMessages == {<<"1", "v", "1">>, <<"a", "1">>, <<"o", "k">>, <<"2", " ", "+", " ", "2">>, <<"2", "+", "2", "=", "a">>, <<"K">>, <<"o", "_", "O">>}
TrafficParse(u, room, message) ==
    Arrive(u, room, NoUser, message, MESSAGE_COOLDOWN, MaxTraffic)
NextTraffic ==
    \/ \E a \in TrafficArrivals, m \in TrafficMessages : TrafficParse(a.user, a.room, m)
    \/ ParseChat
    \/ Finish
SpecTraffic == Init /\ [][NextTraffic]_vars

\* The dispatcher with plain chat only, in rooms with ban-words: the word
\* lists of the lobby and of its sub-room, the tech room, are drawn from
\* BanwordChoices and are changed between two messages by the rooms'
\* staff, with or without the pattern being cleared
MaxBanTalks == 2
BanwordChoices == {{}, {<<"b", "a", "d">>}, {<<"u", "g", "l", "y">>, <<"c", "a", "r", "o", "l">>}}
BanwordArrivals ==
    {[user |-> "carol", room |-> "lobby"], [user |-> "carol", room |-> "tech"],
     [user |-> "bob", room |-> "tech"], [user |-> "zarel", room |-> "tech"]}
BanwordMessages == {<<"s", "o", " ", "b", "a", "d">>, <<"b", "a", "d", "g", "e">>, <<"U", "G", "L", "Y", "!">>}
BanwordParse(u, room, message) ==
    Arrive(u, room, NoUser, message, MESSAGE_COOLDOWN, MaxBanTalks)
\* room.settings.banwords is replaced while no message is being served
SetBanwords(room, words) ==
    /\ stack = <<>>
    /\ words # banwords[room].words
    /\ banwords' = [banwords EXCEPT ![room].words = words]
    /\ UNCHANGED <<stack, users, rooms, now, out, served, pending, granted, said, told>>
    /\ UNCHANGED <<resolveVars, filterVars, lengthVars, pluginVars, utilityVars>>
\* room.banwordRegex is cleared while no message is being served
ClearBanwordRegex(room) ==
    /\ stack = <<>>
    /\ banwords[room].regex.built
    /\ banwords' = [banwords EXCEPT ![room].regex = NoRegex]
    /\ UNCHANGED <<stack, users, rooms, now, out, served, pending, granted, said, told>>
    /\ UNCHANGED <<resolveVars, filterVars, lengthVars, pluginVars, utilityVars>>
InitBanwords ==
    /\ DispatchStartWith({[r \in Rooms |-> IF r \in PlainRooms THEN list[r] ELSE {}] :
                            list \in [PlainRooms -> BanwordChoices]})
    /\ ResolveStart({NoInput})
    /\ FilterStart({NoFilterInput})
    /\ LengthStart({NoLengthInput})
    /\ PluginStart
    /\ UtilityIdle
NextBanwords ==
    \/ \E a \in BanwordArrivals, m \in BanwordMessages : BanwordParse(a.user, a.room, m)
    \/ ParseChat
    \/ Finish
    \/ \E r \in PlainRooms, words \in BanwordChoices : SetBanwords(r, words)
    \/ \E r \in PlainRooms : ClearBanwordRegex(r)
SpecBanwords == InitBanwords /\ [][NextBanwords]_vars

\* The dispatcher with plain chat only and with chat filters loaded: the
\* chain is one of ReasonChains; users with and without a name, members
\* and not, talk in the rooms and in a PM, a second or a full
\* duplicate-message cooldown apart
MaxReasons == 2
ReasonChains == {<<>>, <<"block">>, <<"drop">>, <<"blank">>, <<"tagA", "noA">>}
ReasonArrivals ==
    {[user |-> "carol", room |-> "lobby", pmTarget |-> NoUser],
     [user |-> "carol", room |-> "tech", pmTarget |-> NoUser],
     [user |-> "guest", room |-> "lobby", pmTarget |-> NoUser],
     [user |-> "guest", room |-> "tech", pmTarget |-> NoUser],
     [user |-> "bob", room |-> "lobby", pmTarget |-> NoUser],
     [user |-> "alice", room |-> NoRoom, pmTarget |-> "zarel"]}
ReasonMessages == {<<"h", "e", "l", "l", "o">>, <<"h", "i">>}
ReasonDelays == {1000, MESSAGE_COOLDOWN}
ReasonParse(u, room, pmTarget, message, delay) ==
    Arrive(u, room, pmTarget, message, delay, MaxReasons)
InitReasons ==
    /\ DispatchStart
    /\ ResolveStart({NoInput})
    /\ FilterStart({[chain |-> c, original |-> <<>>, next |-> 1, returned |-> TRUE] :
                        c \in ReasonChains})
    /\ LengthStart({NoLengthInput})
    /\ PluginStart
    /\ UtilityIdle
NextReasons ==
    \/ \E a \in ReasonArrivals, m \in ReasonMessages, d \in ReasonDelays :
          ReasonParse(a.user, a.room, a.pmTarget, m, d)
    \/ ParseOutsideRoom
    \/ ParseChat
    \/ Finish
SpecReasons == InitReasons /\ [][NextReasons]_vars

\* The plugins alone: the files are loaded in any order, and commands are
\* invoked between and after the loads
InitPlugins ==
    /\ DispatchStart
    /\ ResolveStart({NoInput})
    /\ FilterStart({NoFilterInput})
    /\ LengthStart({NoLengthInput})
    /\ PluginStart
    /\ UtilityIdle
NextPlugins ==
    \/ \E file \in PluginFiles : LoadPluginData(file)
    \/ \E id \in HandlerIds : InvokeCommand(id)
SpecPlugins == InitPlugins /\ [][NextPlugins]_vars

InitPattern ==
    /\ DispatchStart
    /\ ResolveStart({NoInput})
    /\ FilterStart({NoFilterInput})
    /\ LengthStart({NoLengthInput})
    /\ PluginStart
    /\ PatternStart(PatternInputs)
    /\ HtmlStart({NoHtmlInput})
    /\ ModlogStart
NextPattern == MultiLineTest
SpecPattern == InitPattern /\ [][NextPattern]_vars

InitHtml ==
    /\ DispatchStart
    /\ ResolveStart({NoInput})
    /\ FilterStart({NoFilterInput})
    /\ LengthStart({NoLengthInput})
    /\ PluginStart
    /\ PatternStart({NoPatternInput})
    /\ HtmlStart(HtmlInputs)
    /\ ModlogStart
NextHtml == \E imagesPass \in BOOLEAN, buttonsPass \in BOOLEAN : CanHTMLCall(imagesPass, buttonsPass)
SpecHtml == InitHtml /\ [][NextHtml]_vars

InitResolve ==
    /\ DispatchStart
    /\ ResolveStart(ResolveInputs)
    /\ FilterStart({NoFilterInput})
    /\ LengthStart({NoLengthInput})
    /\ PluginStart
    /\ UtilityIdle
NextResolve == Resolve \/ ResolveAliasPair
SpecResolve == InitResolve /\ [][NextResolve]_vars

InitFilter ==
    /\ DispatchStart
    /\ ResolveStart({NoInput})
    /\ FilterStart(FilterInputs)
    /\ LengthStart({NoLengthInput})
    /\ PluginStart
    /\ UtilityIdle
NextFilter == FilterCall \/ FilterEnd
SpecFilter == InitFilter /\ [][NextFilter]_vars

InitLength ==
    /\ DispatchStart
    /\ ResolveStart({NoInput})
    /\ FilterStart({NoFilterInput})
    /\ LengthStart(LengthInputs)
    /\ PluginStart
    /\ UtilityIdle
NextLength == CanTalkCall
SpecLength == InitLength /\ [][NextLength]_vars

(***************************************************************************)
(* Properties of the recursion depth (Spec)                                *)
(***************************************************************************)
\* C1: every context's recursionDepth equals its nesting level below the
\* top-level parse: 0 at the top level, the parent's depth plus 1 in the
\* child that a nested parse(msg) creates
C1_DepthIsNestingLevel ==
    \A i \in DOMAIN stack : stack[i].recursionDepth = i - 1

\* C2: a chain of nested parse(msg) calls never gets to an 11th nested
\* level: the attempt to create it is rejected before anything runs there
C2_EleventhLevelRejected ==
    \A i \in DOMAIN stack : i - 1 <= MAX_PARSE_RECURSION

(***************************************************************************)
(* Properties of parseCommand (SpecResolve)                                *)
(***************************************************************************)
Resolution == rsIn.phase = "done"
\* the verb W that the typed verb V is an alias of is registered as a
\* handler function
AliasOfHandler ==
    /\ IsAliasInput(rsIn)
    /\ Get(Sub(Registries[rsIn.reg]), AliasedVerb(rsIn)).kind = "handler"

\* C3 as stated: for a verb V registered as a string alias of W, '/V x'
\* resolves to a descriptor equal in every field to the one of '/W x'
C3_AliasSameDescriptor ==
    Resolution /\ IsAliasInput(rsIn) =>
        /\ rsOut.null = rsRef.null
        /\ rsOut.cmd = rsRef.cmd
        /\ rsOut.fullCmd = rsRef.fullCmd
        /\ rsOut.cmdToken = rsRef.cmdToken
        /\ rsOut.target = rsRef.target
        /\ rsOut.handler = rsRef.handler

\* C3 amended: for a verb V registered as a string alias of a verb W whose
\* entry is a handler function, '/V x' resolves to the handler, cmdToken
\* and target of '/W x', while cmd and fullCmd are the verb as it was
\* typed, in lower case (V, not W)
C3_AliasSameHandler ==
    Resolution /\ AliasOfHandler =>
        /\ ~rsOut.null /\ ~rsRef.null
        /\ rsOut.handler = rsRef.handler
        /\ rsOut.handler = Get(Sub(Registries[rsIn.reg]), AliasedVerb(rsIn))
        /\ rsOut.cmdToken = rsRef.cmdToken
        /\ rsOut.target = rsRef.target
        /\ rsOut.cmd = ToLower(rsIn.verb) /\ rsOut.fullCmd = ToLower(rsIn.verb)
        /\ rsRef.cmd = AliasedVerb(rsIn) /\ rsRef.fullCmd = AliasedVerb(rsIn)

\* '/orb x' has been resolved next to '/stone x'
C3_Witness ==
    /\ Resolution /\ AliasOfHandler
    /\ rsIn.verb = <<"o", "r", "b">> /\ rsIn.target = <<"x">>
    /\ rsOut.handler = Fn("stone") /\ rsOut.cmd = <<"o", "r", "b">> /\ rsRef.cmd = <<"s", "t", "o", "n", "e">>

\* the typed verb is registered in the top-level table as a help array
IsHelpArrayInput ==
    /\ rsIn.shape = "command"
    /\ rsIn.verb \in DOMAIN Registries[rsIn.reg]
    /\ Registries[rsIn.reg][rsIn.verb].kind = "array"

\* C8: parseCommand re-invokes itself at most once per resolution, and a
\* verb whose entry is a help array is redirected exactly once; the
\* resolution ends with a result
C8_RedirectsAtMostOnce ==
    Resolution =>
        /\ rsOut.nested <= 1 /\ rsRef.nested <= 1
        /\ IsHelpArrayInput => rsOut.nested = 1

\* '/stonehelp' has been resolved: redirected once, to the help command
C8_Witness ==
    /\ Resolution /\ IsHelpArrayInput
    /\ rsIn.reg = "plugins" /\ rsIn.verb = <<"s", "t", "o", "n", "e", "h", "e", "l", "p">> /\ rsIn.target = <<>>
    /\ rsOut.nested = 1 /\ rsOut.handler = Fn("help") /\ rsOut.target = <<"s", "t", "o", "n", "e">>

(***************************************************************************)
(* Properties of Chat.filter (SpecFilter)                                  *)
(***************************************************************************)
\* what the i-th filter called returned
OutputOf(i) == CallFilter(flIn.chain[i], flSeen[i])
Called == Len(flSeen)

\* C6: when a filter of the chain returns false the result of the chain is
\* null, and no filter after it is called
C6_FalseSuppresses ==
    \A i \in 1..Called :
        OutputOf(i).t = "false" =>
            /\ Called = i
            /\ flIn.returned
            /\ flResult = RetNull

\* a first filter appended to the text, the second returned false, and a
\* third filter was never called
C6_Witness ==
    /\ flIn.returned /\ Len(flIn.chain) = 3 /\ Called = 2
    /\ flIn.chain[1] = "tagA" /\ OutputOf(2).t = "false"
    /\ flResult = RetNull

\* the filter called i-th did not end the chain
PassedOn(i) == RetTruthy(OutputOf(i)) \/ OutputOf(i).t = "undefined"
\* the text that the last filter called left in flight
SurvivingText ==
    IF Called = 0 THEN flIn.original
    ELSE IF OutputOf(Called).t = "string" THEN OutputOf(Called).text
    ELSE flSeen[Called]

\* C7 as stated: a filter that returns a replacement string makes the next
\* filter see the replacement, one that returns undefined leaves the text
\* as it is, and the chain returns the text that survived the last filter
C7_ReplacementSeen ==
    flIn.returned =>
        /\ \A i \in 1..Called :
              /\ (OutputOf(i).t = "string" /\ i < Len(flIn.chain)) =>
                    (Called > i /\ flSeen[i + 1] = OutputOf(i).text)
              /\ (OutputOf(i).t = "undefined" /\ i < Len(flIn.chain)) =>
                    (Called > i /\ flSeen[i + 1] = flSeen[i])
        /\ (\A i \in 1..Called : OutputOf(i).t \in {"string", "undefined"}) =>
              flResult = RetString(SurvivingText)

\* C7 amended: a filter that returns a non-empty replacement string makes
\* the next filter see the replacement, one that returns undefined leaves
\* the text as it is, and the chain returns the text that survived the
\* last filter; a filter that returns the empty string ends the chain at
\* once, and the empty string is the result
C7_NonEmptyReplacementSeen ==
    /\ Called >= 1 => flSeen[1] = flIn.original
    /\ \A i \in 1..Called :
          /\ (i < Called /\ OutputOf(i).t = "string") =>
                (OutputOf(i).text # <<>> /\ flSeen[i + 1] = OutputOf(i).text)
          /\ (i < Called /\ OutputOf(i).t = "undefined") =>
                flSeen[i + 1] = flSeen[i]
          /\ OutputOf(i) = RetString(<<>>) =>
                (Called = i /\ flIn.returned /\ flResult = RetString(<<>>))
          /\ (flIn.returned /\ PassedOn(i) /\ i < Len(flIn.chain)) => Called > i
    /\ (flIn.returned /\ \A i \in 1..Called : PassedOn(i)) =>
          flResult = RetString(SurvivingText)

\* two filters appended to the text one after the other and the chain
\* returned what the second made of the first's replacement
C7_Witness ==
    /\ flIn.returned /\ flIn.chain = <<"tagA", "tagB">> /\ flIn.original = <<"h", "i">>
    /\ flSeen = <<<<"h", "i">>, <<"h", "i", "a">>>>
    /\ flResult = RetString(<<"h", "i", "a", "b">>)

(***************************************************************************)
(* Properties of canTalk's length check (SpecLength)                       *)
(***************************************************************************)
\* canTalk has replied that the message is too long
RepliedTooLong == \E i \in DOMAIN out : out[i].tag = "too long"
\* the message got to the length check: the user is named and in the room
\* and the message is not empty
ReachedLengthCheck ==
    /\ lnIn.phase = "done"
    /\ UserNamed(lnIn.user)
    /\ InRoom(lnIn.user, lnIn.room)
    /\ lnIn.plain + lnIn.fdfd > 0

\* C5: for a user without 'ignorelimits' whose message reached the length
\* check, canTalk rejects the message as too long exactly when its number
\* of characters plus 10 times its number of U+FDFD characters exceeds 300
C5_WeightedLengthCeiling ==
    ReachedLengthCheck /\ ~UserCan(lnIn.user, "ignorelimits", NoRoom) =>
        /\ RepliedTooLong <=> (lnIn.plain + lnIn.fdfd) + 10 * lnIn.fdfd > 300
        /\ RepliedTooLong => ~lnOut.ok
        /\ ~RepliedTooLong => lnOut.ok /\ Len(lnOut.text) = lnIn.plain + lnIn.fdfd

\* a message of 50 U+FDFD characters and nothing else has been rejected
C5_Witness ==
    /\ ReachedLengthCheck /\ lnIn.user = "alice"
    /\ lnIn.fdfd = 50 /\ lnIn.plain = 0
    /\ RepliedTooLong /\ ~lnOut.ok

(***************************************************************************)
(* Properties of the dispatcher (Spec)                                     *)
(***************************************************************************)
\* The context on top is about to run a broadcastable handler that a
\* voiced user without the bypass capability invoked with the broadcast
\* symbol in a room, and the invocation is the one last broadcast there
RepeatedBroadcast ==
    /\ stack # <<>> /\ Top.pc = "parse"
    /\ Top.room # NoRoom /\ InRoom(Top.user, Top.room)
    /\ Truthy(Resolved(Top).handler)
    /\ Broadcastable(RunTarget(Resolved(Top).handler).id)
    /\ ShouldBroadcast(Resolved(Top))
    /\ ~UserCan(Top.user, "bypassall", NoRoom)
    /\ UserCan(Top.user, "show", Top.room)
    /\ rooms[Top.room].lastBroadcastTime > 0
    /\ rooms[Top.room].lastBroadcast = BroadcastNormal(Top.message)
\* it arrives within 20 seconds of that broadcast
WithinCooldown == now - rooms[Top.room].lastBroadcastTime <= 20000
\* the step grants the broadcast: the context is broadcasting after it
GrantedNext == stack'[Len(stack)].broadcasting

\* C4 as stated: the next identical broadcast invocation in the room is
\* rejected if it arrives within 20 seconds of the granted one, and is
\* granted if it arrives more than 20 seconds after it
C4_CooldownDecides ==
    [][RepeatedBroadcast => IF WithinCooldown THEN ~GrantedNext ELSE GrantedNext]_vars

\* C4 amended: the next identical broadcast invocation in the room is
\* rejected if it arrives within 20 seconds of the granted one; if it
\* arrives more than 20 seconds after it, it is granted exactly when
\* canTalk accepts the invocation text (in the rooms 'lobby' and 'help'
\* canTalk rejects a text the same user sent less than 5 minutes ago)
C4_CooldownThenCanTalk ==
    [][RepeatedBroadcast =>
          IF WithinCooldown THEN ~GrantedNext
          ELSE GrantedNext <=> CanTalk(Resolved(Top), World, Top.message).ok]_vars

\* a second identical broadcast has just been refused for the cooldown, 20
\* seconds after the first
C4_Witness ==
    /\ stack # <<>> /\ Top.pc = "done" /\ ~Top.broadcasting
    /\ Top.user = "alice" /\ Top.message = <<"!", "s", "t", "o", "n", "e", " ", "x">> /\ Top.room \in Rooms
    /\ rooms[Top.room].lastBroadcast = <<"!", "s", "t", "o", "n", "e", " ", "x">>
    /\ now - rooms[Top.room].lastBroadcastTime = 20000
    /\ \E i \in DOMAIN out : out[i].tag = "just broadcasted"

\* the message starts with the broadcast symbol twice
Doubled(message) == Len(message) >= 2 /\ message[1] = "!" /\ message[2] = "!"
\* the texts that the running top-level parse delivered as chat messages
Delivered == {out[i].text : i \in {j \in DOMAIN out : out[j].kind \in {"chat", "pm"}}}
\* a top-level parse has returned
TopDone == Len(stack) = 1 /\ Top.pc = "done"

\* C9 as stated: an input that starts with the broadcast symbol doubled is
\* not dispatched as a command, and what is delivered for it is the text
\* with one leading symbol removed
C9_DeliveredWithoutOneSymbol ==
    TopDone /\ Doubled(Top.message) =>
        /\ ~Truthy(Top.handler)
        /\ \A text \in Delivered : text = SliceFrom(Top.message, 1)

\* C9 amended: an input that starts with the broadcast symbol doubled is
\* not dispatched as a command; unless it is bounced because the sender is
\* not in the room, it goes through canTalk as a chat message, and what is
\* delivered for it is the text as it was typed, with both symbols
C9_DeliveredAsTyped ==
    TopDone /\ Doubled(Top.message) =>
        /\ ~Truthy(Top.handler) /\ Top.cmdToken = <<>>
        /\ \A text \in Delivered : text = Top.message
        /\ \/ Top.via = "outside" /\ Delivered = {}
           \/ /\ Top.via = "talk"
              /\ Top.ret \in {RetNull, RetString(Top.message)}
              /\ (Top.ret.t = "string" /\ Top.room # NoRoom) => Delivered = {Top.message}

\* '!!test' has been delivered to the lobby
C9_Witness ==
    /\ TopDone /\ Top.message = <<"!", "!", "t", "e", "s", "t">> /\ Top.room = "lobby"
    /\ Delivered = {<<"!", "!", "t", "e", "s", "t">>}

\* the context on top has returned a non-empty string that its handler
\* returned
HandlerString ==
    /\ stack # <<>> /\ Top.pc = "done" /\ Top.via = "handler"
    /\ Top.ret.t = "string" /\ Top.ret.text # <<>>
LastOut == out[Len(out)]

\* C10 as stated: a non-empty string returned by a handler is delivered
\* as a chat message only if canTalk accepts it
C10_DeliveredOnlyIfAccepted ==
    (HandlerString /\ out # <<>> /\ LastOut.kind \in {"chat", "pm"}) =>
        CanTalk(Top, World, Top.ret.text).ok

\* C10 amended: a non-empty string returned by a handler is handed to
\* sendChatMessage as it is, without canTalk: it is delivered to the PM
\* target or else to the room (or bounced in a popup when the context has
\* neither), also when canTalk would reject it
C10_DeliveredUnchecked ==
    HandlerString =>
        /\ out # <<>>
        /\ LastOut.text = Top.ret.text
        /\ LastOut.kind = IF Top.pmTarget # NoUser THEN "pm"
                          ELSE IF Top.room # NoRoom THEN "chat" ELSE "popup"

\* the text returned by a handler has been delivered to the lobby for a
\* user who has not chosen a name, whom canTalk rejects
C10_Witness ==
    /\ HandlerString /\ Top.user = "guest" /\ Top.room = "lobby"
    /\ LastOut.kind = "chat" /\ LastOut.text = <<"h", "i">>
    /\ ~CanTalk(Top, World, Top.ret.text).ok

(***************************************************************************)
(* Properties of parse's error handling (Spec)                             *)
(***************************************************************************)
\* a line of the output log
Line(kind, cls, tag, text) == [kind |-> kind, cls |-> cls, tag |-> tag, text |-> text]
\* parse() runs in the context on top in this step and returns in it
Running == stack # <<>> /\ Top.pc = "parse" /\ Len(stack') = Len(stack)
\* the context on top after the step
After == stack'[Len(stack)]
\* the message is bounced because its sender is not in the room
Bounced == NotInRoom(Resolved(Top)) /\ Resolved(Top).room # "lobby"
\* parse() runs in the context on top and calls commandDoesNotExist()
UnknownCommand ==
    /\ stack # <<>> /\ Top.pc = "parse" /\ ~Bounced
    /\ ~Truthy(Resolved(Top).handler)
    /\ Resolved(Top).cmdToken # <<>>
    /\ ~(Resolved(Top).cmdToken = <<"!">> /\ Resolved(Top).cmd = <<>>)

\* C11: when a handler or commandDoesNotExist throws an ErrorMessage, the
\* user gets the error text in an error reply and nothing else is sent:
\* no chat message, no crash report; parse returns false at once, without
\* having gone through canTalk
C11_UserFacingErrorOnlyReplies ==
    [][(Running /\ (After.did = "throw ErrorMessage" \/ UnknownCommand)) =>
          /\ After.pc = "done" /\ After.ret = RetFalse
          /\ out' = Append(out, Line("reply", "error", "ErrorMessage", <<>>))
          /\ users' = users /\ rooms' = rooms]_vars

\* '/plug hi' has thrown an ErrorMessage and the user got the error reply
C11_Witness ==
    /\ TopDone /\ Top.message = <<"/", "p", "l", "u", "g", " ", "h", "i">> /\ Top.did = "throw ErrorMessage"
    /\ Top.ret = RetFalse
    /\ out = <<Line("reply", "error", "ErrorMessage", <<>>)>>

\* the crash report of the context f
CrashlogLine(f) ==
    [kind |-> "crashlog", cls |-> "crashlog", tag |-> "A chat command",
     text |-> f.message, user |-> f.user, room |-> f.room, pmTarget |-> f.pmTarget]
\* parse has returned from a handler that threw an Error
Crashed == stack # <<>> /\ Top.pc = "done" /\ Top.did = "throw Error"

\* C12: when a handler throws an error that is not an ErrorMessage, parse
\* makes one crash report with the user, room and message of the context,
\* sends the user the crash notice, and returns to its caller, so that
\* Chat.parse returns and the next message is served
C12_CrashReportedOnce ==
    /\ [][(Running /\ After.did = "throw Error") =>
             /\ After.pc = "done"
             /\ Len(out') >= Len(out) + 2
             /\ out'[Len(out) + 1] = CrashlogLine(After)
             /\ out'[Len(out) + 2] = Line("reply", "html", "crashed", <<>>)
             /\ \A i \in (Len(out) + 2)..Len(out') : out'[i].kind # "crashlog"]_vars
    /\ [](Crashed /\ Len(stack) = 1 => ENABLED Finish)
    /\ []((stack = <<>> /\ served < MaxServed) =>
             ENABLED ChatParse("bob", "tech", NoUser, <<"h", "e", "l", "l", "o">>, MESSAGE_COOLDOWN))

\* '/plug hi' has thrown an Error in the tech room: one crash report, then
\* the crash notice
C12_Witness ==
    /\ Crashed /\ Len(stack) = 1 /\ Top.message = <<"/", "p", "l", "u", "g", " ", "h", "i">> /\ Top.user = "bob"
    /\ Len(out) >= 2
    /\ out[1] = CrashlogLine(Top) /\ out[1].user = "bob" /\ out[1].room = "tech"
    /\ out[2] = Line("reply", "html", "crashed", <<>>)
    /\ Cardinality({i \in DOMAIN out : out[i].kind = "crashlog"}) = 1

(***************************************************************************)
(* Properties of run and of unresolved commands (Spec)                     *)
(***************************************************************************)
\* parse() runs in the context on top and resolves a handler that is not
\* broadcastable for an invocation with the broadcast symbol
BroadcastOfNonBroadcastable ==
    /\ stack # <<>> /\ Top.pc = "parse" /\ ~Bounced
    /\ Truthy(Resolved(Top).handler)
    /\ Resolved(Top).cmdToken = <<"!">>
    /\ ~Broadcastable(RunTarget(Resolved(Top).handler).id)

\* C15: run() in a context with the command token '!' and a handler that
\* is not broadcastable does not call the handler; the user gets the two
\* error replies that say to use the '/' form, and false is returned
C15_NonBroadcastableNotCalled ==
    [][BroadcastOfNonBroadcastable =>
          /\ Len(stack') = Len(stack)
          /\ After.did = "none"
          /\ After.pc = "done" /\ After.ret = RetFalse
          /\ out' = out \o <<Line("reply", "error", "can't be broadcast", After.fullCmd),
                              Line("reply", "error", "use / instead", After.fullCmd)>>
          /\ users' = users /\ rooms' = rooms]_vars

\* '!plug hi' has been refused: plug is not broadcastable
C15_Witness ==
    /\ TopDone /\ Top.message = <<"!", "p", "l", "u", "g", " ", "h", "i">> /\ Top.handler = Fn("plug")
    /\ Top.did = "none" /\ Top.ret = RetFalse
    /\ out = <<Line("reply", "error", "can't be broadcast", <<"p", "l", "u", "g">>),
               Line("reply", "error", "use / instead", <<"p", "l", "u", "g">>)>>

\* the message on top starts with one command symbol, not doubled, and
\* resolves to no handler
SingleSymbolUnresolved ==
    /\ stack # <<>> /\ Top.pc = "parse" /\ ~Bounced
    /\ Len(Top.message) >= 1
    /\ Includes(VALID_COMMAND_TOKENS, CharAt(Top.message, 0))
    /\ CharAt(Top.message, 1) # CharAt(Top.message, 0)
    /\ ~Truthy(Resolved(Top).handler)
\* the symbol is the broadcast symbol and what follows it does not start
\* with a letter or a digit
BroadcastOfNoIdentifier ==
    /\ CharAt(Top.message, 0) = <<"!">>
    /\ ~(Len(Top.message) >= 2 /\ Top.message[2] \in Alnum)
\* the lines the step has added to the output
Added == SubSeq(out', Len(out) + 1, Len(out'))

StartsBroadcasting ==
    /\ stack # <<>> /\ Top.pc = "parse" /\ Len(stack') >= Len(stack)
    /\ ~Top.broadcasting /\ After.broadcasting
\* the broadcast permission check of canBroadcast passes for the context f
MayBroadcast(f) ==
    /\ f.room # NoRoom => UserCan(f.user, "show", f.room)
    /\ f.room # NoRoom \/ f.pmTarget # NoUser
    /\ \/ f.room = NoRoom
       \/ UserCan(f.user, "bypassall", NoRoom)
       \/ rooms[f.room].lastBroadcast # BroadcastNormal(f.message)
       \/ now - rooms[f.room].lastBroadcastTime > BROADCAST_COOLDOWN

\* C18: a context whose broadcasting flag is set was invoked with the
\* broadcast symbol and has had its permission checked; and the flag is
\* only set in a step in which the permission check passes and canTalk
\* accepts the text of the invocation, which becomes the context's message
C18_BroadcastingWasChecked ==
    /\ [](\A i \in DOMAIN stack :
             stack[i].broadcasting =>
                (stack[i].cmdToken = <<"!">> /\ stack[i].broadcastMessage # <<>>))
    /\ [][StartsBroadcasting =>
             /\ Resolved(Top).cmdToken = <<"!">>
             /\ MayBroadcast(Entered(Resolved(Top)))
             /\ CanTalk(Entered(Resolved(Top)), World, Top.message).ok
             /\ After.message = CanTalk(Entered(Resolved(Top)), World, Top.message).text
             /\ After.broadcastMessage = BroadcastNormal(Top.message)]_vars

\* the voiced user's '!stone x' is being broadcast in the lobby
C18_Witness ==
    /\ TopDone /\ Top.broadcasting /\ Top.did = "stone found"
    /\ Top.user = "alice" /\ Top.room = "lobby" /\ Top.message = <<"!", "s", "t", "o", "n", "e", " ", "x">>
    /\ users["alice"].lastMessage = <<"!", "s", "t", "o", "n", "e", " ", "x">> /\ users["alice"].lastMessageTime = now

\* where in the output the broadcast was granted: the line that shows the
\* invocation (0 when there is none)
GrantedAt ==
    IF \E i \in DOMAIN out : out[i].tag = "broadcast"
    THEN CHOOSE i \in DOMAIN out : out[i].tag = "broadcast"
    ELSE 0
\* a top-level context has returned without having made a sub-invocation:
\* every line of the output is its own
AloneDone == TopDone /\ Top.cont = "none"
\* the lines written by sendReply
FromSendReply(line) == line.kind \in {"reply", "room", "pmpair"}
\* sent to the whole room, or to both members of the PM pair
ToEveryone(f) == IF f.room # NoRoom THEN "room" ELSE "pmpair"

\* C19: until broadcasting is granted every sendReply of a context goes to
\* the invoking connection only, from then on every sendReply goes to the
\* room (to the PM pair in a PM), and the flag of a context never goes
\* back to false
C19_RepliesFollowTheFlag ==
    /\ [](AloneDone =>
            /\ Top.broadcasting <=> GrantedAt > 0
            /\ \A i \in DOMAIN out :
                  FromSendReply(out[i]) =>
                     out[i].kind = IF GrantedAt > 0 /\ i >= GrantedAt
                                   THEN ToEveryone(Top) ELSE "reply")
    /\ [][\A i \in DOMAIN stack :
             (i \in DOMAIN stack' /\ stack[i].broadcasting) => stack'[i].broadcasting]_vars

\* '!stone x' in a PM: the broadcast line and the two replies of the
\* handler have gone to both members of the PM pair
C19_Witness ==
    /\ AloneDone /\ Top.broadcasting /\ Top.pmTarget = "zarel" /\ Top.message = <<"!", "s", "t", "o", "n", "e", " ", "x">>
    /\ Len(out) = 3 /\ GrantedAt = 1
    /\ \A i \in DOMAIN out : out[i].kind = "pmpair"

(***************************************************************************)
(* Properties of deferred values (SpecDeferred)                            *)
(***************************************************************************)
\* the step runs the k-th continuation
Settles(k) == stack = <<>> /\ k \in DOMAIN pending /\ pending' = Without(pending, k)
\* what an observer sees of a line: who gets it and what it carries (the
\* description that the crash report is filed under is left out)
Observed(lines) ==
    [i \in DOMAIN lines |->
        [kind |-> lines[i].kind, cls |-> lines[i].cls, text |-> lines[i].text,
         tag |-> IF lines[i].kind = "crashlog" THEN "" ELSE lines[i].tag]]
\* the lines parse() sends from the moment the handler of the context f
\* throws err
LinesOfThrow(f, err) ==
    Caught([f EXCEPT !.pc = "parse"], [World EXCEPT !.out = <<>>], err, f.message).w.out
\* the error a deferred value rejects with
RejectedWith(outcome) ==
    IF outcome = "reject ErrorMessage" THEN "ErrorMessage" ELSE "Error"

\* C13: when the deferred value returned by a handler rejects, the replies,
\* chat messages and crash reports are those of the same error thrown by
\* the handler synchronously
C13_RejectionLikeThrow ==
    [][\A k \in DOMAIN pending :
          (Settles(k) /\ pending[k].outcome \in {"reject ErrorMessage", "reject Error"}) =>
             Observed(Added) =
                Observed(LinesOfThrow(pending[k].f, RejectedWith(pending[k].outcome)))]_vars

\* a top-level parse has returned the deferred value of its handler
ReturnedDeferred == TopDone /\ Top.ret.t = "promise"
\* what the continuation of a value that resolves with `text` delivers
\* from the context f
Delivery(f, text) ==
    IF f.pmTarget # NoUser THEN Line("pm", "pm", "sendPM", text)
    ELSE IF f.room # NoRoom THEN Line("chat", "c", "chat", text)
    ELSE Line("popup", "popup", "could not be sent", text)

\* C14: parse returns the deferred value of a handler without waiting:
\* the continuation is left pending and nothing is delivered; whenever the
\* value resolves, whatever has been served in between, the continuation
\* delivers it if it is a non-empty string
C14_DeferredDoesNotBlock ==
    /\ [](ReturnedDeferred =>
            /\ pending # <<>>
            /\ pending[Len(pending)] =
                  [f |-> Top, outcome |-> Top.ret.outcome, text |-> Top.ret.text]
            /\ out = <<>>
            /\ ENABLED Finish)
    /\ [][\A k \in DOMAIN pending :
             (Settles(k) /\ pending[k].outcome = "resolve" /\ pending[k].text # <<>>) =>
                Added = <<Delivery(pending[k].f, pending[k].text)>>]_vars

\* alice's '/later hi' returned a deferred value; the next message, 'hello'
\* from bob, was served and delivered; then the value resolved and 'hi'
\* was delivered
C14_Witness ==
    /\ served = 2 /\ stack = <<>> /\ pending = <<>>
    /\ out = <<Line("chat", "c", "chat", <<"h", "e", "l", "l", "o">>), Line("chat", "c", "chat", <<"h", "i">>)>>
    /\ users["bob"].lastMessage = <<"h", "e", "l", "l", "o">> /\ users["alice"].lastMessage = <<>>

(***************************************************************************)
(* Properties of the broadcast cooldown (SpecBroadcast)                    *)
(***************************************************************************)
\* the i-th and the j-th granted broadcast are in the same room, with the
\* same normalized text, and the later one is by a user without the
\* bypass capability
SameBroadcast(i, j) ==
    /\ i < j
    /\ granted[i].room = granted[j].room
    /\ granted[i].text = granted[j].text
    /\ ~UserCan(granted[j].user, "bypassall", NoRoom)
\* no broadcast was granted in that room between the two
Consecutive(i, j) ==
    \A k \in DOMAIN granted : (i < k /\ k < j) => granted[k].room # granted[i].room

\* C17 as stated: no two granted broadcasts of the same normalized text in
\* a room are less than 20 seconds apart, whatever was broadcast there in
\* between
C17_NeverTwiceInWindow ==
    \A i, j \in DOMAIN granted :
        SameBroadcast(i, j) => granted[j].time - granted[i].time >= BROADCAST_COOLDOWN

\* C17 amended: two granted broadcasts of the same normalized text in a
\* room with no other granted broadcast in that room between them are not
\* less than 20 seconds apart
C17_NeverTwiceInARow ==
    \A i, j \in DOMAIN granted :
        (SameBroadcast(i, j) /\ Consecutive(i, j)) =>
            granted[j].time - granted[i].time >= BROADCAST_COOLDOWN

\* the voiced user's '!stone x' has been granted twice in a row in the tech
\* room, the second time just after the end of the cooldown
C17_Witness ==
    /\ served = 3 /\ Len(granted) = 2 /\ SameBroadcast(1, 2)
    /\ granted[1].room = "tech" /\ granted[1].text = <<"!", "s", "t", "o", "n", "e", " ", "x">>
    /\ granted[2].time - granted[1].time > BROADCAST_COOLDOWN
    /\ granted[2].time - granted[1].time < 2 * BROADCAST_COOLDOWN

(***************************************************************************)
(* Properties of slow mode (SpecTalk)                                      *)
(***************************************************************************)
\* parse() in the context on top takes a plain message to canTalk's slow
\* mode check: a named member of a room in slow mode, without 'show'
SlowModeApplies ==
    /\ stack # <<>> /\ Top.pc = "parse"
    /\ ~Truthy(Resolved(Top).handler) /\ Resolved(Top).cmdToken = <<>>
    /\ Top.room # NoRoom /\ Top.pmTarget = NoUser
    /\ InRoom(Top.user, Top.room) /\ UserNamed(Top.user)
    /\ Top.message # <<>>
    /\ RoomSettings(Top.room).slowchat > 0
    /\ ~UserCan(Top.user, "show", Top.room)
\* the step refuses the message for slow mode
RefusedAsTooSoon == \E i \in DOMAIN Added : Added[i].tag = "slowchat"

\* C20: slow mode refuses a message of a user without the bypass
\* capability exactly when the last message of that user accepted in that
\* room is less than the room's interval old; what the user said in other
\* rooms does not count
C20_SlowModeCountsThisRoom ==
    [][SlowModeApplies =>
          (RefusedAsTooSoon <=>
              now - said[Top.user][Top.room] < 1000 * RoomSettings(Top.room).slowchat)]_vars

(***************************************************************************)
(* Properties of the duplicate-message cooldown (SpecDuplicate)            *)
(***************************************************************************)
\* parse() in the context on top takes a plain message to canTalk's
\* duplicate check: a named member of a duplicate-checked room, without
\* 'bypassall', sends again the text of the last message canTalk accepted
\* from them
SameMessageAgain ==
    /\ stack # <<>> /\ Top.pc = "parse"
    /\ ~Truthy(Resolved(Top).handler) /\ Resolved(Top).cmdToken = <<>>
    /\ Top.room \in DuplicateCheckedRooms /\ Top.pmTarget = NoUser
    /\ InRoom(Top.user, Top.room) /\ UserNamed(Top.user)
    /\ ~UserCan(Top.user, "bypassall", NoRoom)
    /\ Top.message # <<>>
    /\ Escaped(Resolved(Top), Top.message) = told[Top.user].text
\* the step refuses the message as a duplicate
RefusedAsDuplicate == \E i \in DOMAIN Added : Added[i].tag = "same message"
\* the step delivers the message to the room
DeliveredToRoom == \E i \in DOMAIN Added : Added[i].kind = "chat"

\* C21: in a duplicate-checked room a message identical to the user's
\* previous accepted message is refused when it comes less than
\* MESSAGE_COOLDOWN after it, and passes once MESSAGE_COOLDOWN has gone by
C21_SameMessageRefusedInCooldown ==
    [][SameMessageAgain =>
          (RefusedAsDuplicate <=> now - told[Top.user].time < MESSAGE_COOLDOWN)]_vars

(***************************************************************************)
(* Properties of the ban-words (SpecBanwords)                              *)
(***************************************************************************)
\* the room and its ancestors, nearest first
RECURSIVE Lineage(_)
Lineage(room) == IF room = NoRoom THEN <<>> ELSE <<room>> \o Lineage(RoomParent(room))
\* the pattern a check in the room works with: the one the room holds, or
\* else the one its word list gives
PatternOf(room) ==
    IF banwords[room].regex.built THEN banwords[room].regex.words
    ELSE banwords[room].words
\* the text matches the pattern of the room or of one of its ancestors
BannedIn(room, text) ==
    \E i \in DOMAIN Lineage(room) : BanwordTest(PatternOf(Lineage(room)[i]), text)
\* parse() in the context on top takes a plain message of a room to canTalk
PlainTalk ==
    /\ stack # <<>> /\ Top.pc = "parse"
    /\ ~Truthy(Resolved(Top).handler) /\ Resolved(Top).cmdToken = <<>>
    /\ Top.room # NoRoom /\ Top.pmTarget = NoUser
    /\ Top.message # <<>>
\* the step refuses the message with the reason `tag`
RefusedFor(tag) == \E i \in DOMAIN Added : Added[i].tag = tag
\* the reasons of the checks that canTalk makes before it looks at the
\* ban-words in the message body
EarlierReasons ==
    {"must choose a name", "locked", "muted", "modchat", "not in room", "blank",
     "too long", "slowchat", "banned name"}

\* C22: a message body that matches the ban-word pattern of its room or of
\* an ancestor of the room, from a user without the 'mute' capability in
\* the room, is refused by canTalk with the ban-word reason when no earlier
\* check of canTalk has refused it, and is not delivered; the user with the
\* capability is not refused for it
C22_BanwordsOfRoomAndAncestors ==
    [][(PlainTalk /\ BannedIn(Top.room, Top.message)) =>
          /\ ~UserCan(Top.user, "mute", Top.room) =>
                /\ ~DeliveredToRoom
                /\ RefusedFor("banwords") \/ \E tag \in EarlierReasons : RefusedFor(tag)
          /\ UserCan(Top.user, "mute", Top.room) => ~RefusedFor("banwords")]_vars
\* a message in the tech room, which has no ban-words of its own, has been
\* refused for a word banned by the lobby, its parent
C22_Witness ==
    /\ Len(stack) = 1 /\ Top.pc = "done" /\ Top.room = "tech"
    /\ banwords["tech"].words = {} /\ banwords["tech"].regex = BanwordRegex({})
    /\ BanwordTest(banwords["lobby"].regex.words, Top.message)
    /\ \E i \in DOMAIN out : out[i].tag = "banwords"
    /\ \A i \in DOMAIN out : out[i].kind # "chat"

(***************************************************************************)
(* Properties of canTalk's rejections (SpecReasons)                        *)
(***************************************************************************)
\* the step is parse() calling canTalk on a plain message, and canTalk
\* returns null
TalkReturnsNull ==
    /\ stack # <<>> /\ Top.pc = "parse"
    /\ After.via = "talk" /\ After.ret = RetNull
\* the step shows the user a reason: an error reply or a popup
ReasonShown ==
    \E i \in DOMAIN Added :
        Added[i].kind = "popup" \/ (Added[i].kind = "reply" /\ Added[i].cls = "error")
\* the chat filters suppress the message that parse() hands to canTalk
FiltersSuppress ==
    /\ Len(ChatFilters) > 0
    /\ ChatFilter(ChatFilters, Escaped(Resolved(Top), Top.message)) = RetNull

Flags(h) == <<h.requiresRoom, h.hasRoomPermissions, h.broadcastable, h.isPrivate>>
\* the step loads no plugin: whatever it does is done for one invocation
NoRegistration == plugins'.files = plugins.files

\* C24 as stated: once registered, no flag of a handler is changed by
\* anything done for an invocation
C24_FlagsFixedAtRegistration ==
    [][NoRegistration =>
          \A id \in HandlerIds : Flags(plugins'.handlers[id]) = Flags(plugins.handlers[id])]_vars
\* C24: once registered, requiresRoom, hasRoomPermissions and broadcastable
\* of a handler are changed by nothing done for an invocation; isPrivate is
\* never cleared, and is set on the handler a message resolved to when it
\* or a handler it runs calls privatelyCan
C24_OnlyIsPrivateIsSetLater ==
    [][/\ NoRegistration =>
            \A id \in HandlerIds :
                /\ plugins'.handlers[id].requiresRoom = plugins.handlers[id].requiresRoom
                /\ plugins'.handlers[id].hasRoomPermissions
                       = plugins.handlers[id].hasRoomPermissions
                /\ plugins'.handlers[id].broadcastable = plugins.handlers[id].broadcastable
                /\ plugins.handlers[id].isPrivate => plugins'.handlers[id].isPrivate
       /\ \A id \in HandlerIds :
            InvokeCommand(id) =>
                /\ plugins'.handlers[id].isPrivate
                       = (plugins.handlers[id].isPrivate
                          \/ CallsPrivatelyCan(id, Cardinality(HandlerIds)))
                /\ \A other \in HandlerIds \ {id} :
                       plugins'.handlers[other] = plugins.handlers[other]]_vars
\* peek, which runs 'secret' of another file, was registered as not
\* private and has become private by being invoked
C24_Witness ==
    /\ {"base", "other"} \subseteq plugins.files
    /\ ~HandlerCode("peek").privatelyCan
    /\ plugins.handlers["peek"].isPrivate
    /\ ~plugins.handlers["peek"].broadcastable

\* the handler b that the handler a is declared to run, when both are
\* registered
Runs(a, b) ==
    /\ a \in Registered
    /\ HandlerCode(a).runs # ""
    /\ plugins.commands[HandlerCode(a).runs].kind = "function"
    /\ plugins.commands[HandlerCode(a).runs].id = b

\* C30: once registered, a handler that is declared to run another handler
\* has every metadata flag that the other handler has, in whatever order
\* and from whichever files the two were registered
C30_RunnerHasFlagsOfBase ==
    \A a, b \in HandlerIds :
        Runs(a, b) =>
            \A i \in 1..4 : Flags(plugins.handlers[b])[i] => Flags(plugins.handlers[a])[i]

(***************************************************************************)
(* Properties of a handler that redirects to itself (Spec)                 *)
(***************************************************************************)
\* every context of the running parse has the same message, which resolves
\* to a handler that calls this.parse with that message again
SelfRedirecting ==
    /\ stack # <<>>
    /\ \A i \in DOMAIN stack : stack[i].message = stack[1].message
    /\ Truthy(Resolved(stack[1]).handler)
    /\ HandlerPrograms(RunTarget(Resolved(stack[1]).handler).id) = {"parse again"}

\* C25: a handler that always redirects to itself is cut off by the
\* recursion ceiling: once MAX_PARSE_RECURSION sub-invocations are nested
\* below the top-level parse, no further one is made
C25_SelfRedirectCutOff ==
    [][(SelfRedirecting /\ Len(stack) >= MAX_PARSE_RECURSION + 1)
          => Len(stack') <= Len(stack)]_vars

(***************************************************************************)
(* Properties of the room's last-broadcast record (SpecBroadcast)          *)
(***************************************************************************)
\* the broadcasts granted in the room so far, oldest first
GrantedIn(room) == SelectSeq(granted, LAMBDA g : g.room = room)
\* the step grants a broadcast in a room
GrantsInRoom == Len(granted') = Len(granted) + 1

BroadcastingPrograms == {"stone found", "stone not found", "broadcast reply"}
\* parse() in the context on top runs a handler that asks for a broadcast
\* of an invocation made with the broadcast symbol
AsksToBroadcast ==
    /\ stack # <<>> /\ Top.pc = "parse"
    /\ Resolved(Top).cmdToken = <<"!">>
    /\ After.did \in BroadcastingPrograms
\* the context as the handler finds it: the lobby is dropped for a user
\* who is not in it
Asking == Entered(Resolved(Top))

\* C27 as stated: the permission step asks for 'show' only in a room, and
\* lets a context without a room through, be it a PM or the console
C27_RoomlessContextsPass ==
    [][AsksToBroadcast =>
          /\ RefusedFor("need voice")
                <=> (Asking.room # NoRoom /\ ~UserCan(Asking.user, "show", Asking.room))
          /\ Asking.room = NoRoom => ~RefusedFor("broadcast needs a target")]_vars
\* C27: the permission step asks for 'show' only in a room; without a
\* room, a PM context passes it and a console context (no PM target) is
\* refused with the explanation that a broadcast needs a room or a PM
C27_OnlyPMPassesWithoutRoom ==
    [][AsksToBroadcast =>
          /\ RefusedFor("need voice")
                <=> (Asking.room # NoRoom /\ ~UserCan(Asking.user, "show", Asking.room))
          /\ RefusedFor("broadcast needs a target")
                <=> (Asking.room = NoRoom /\ Asking.pmTarget = NoUser)
          /\ (RefusedFor("need voice") \/ RefusedFor("broadcast needs a target"))
                => ~After.broadcasting]_vars
\* a broadcast has been granted in a PM, and before it one was refused on
\* the console
C27_Witness ==
    /\ served = 2 /\ TopDone /\ Top.broadcasting
    /\ Top.room = NoRoom /\ Top.pmTarget = "zarel"
    /\ \E i \in DOMAIN out : out[i].tag = "broadcast" /\ out[i].kind = "pmpair"

(***************************************************************************)
(* Properties of the high traffic rooms (SpecTraffic)                      *)
(***************************************************************************)
\* the letters of a text, of either case
LettersOf(text) == SelectSeq(ToLower(text), LAMBDA c : c \in LowerLetters)
\* parse() in the context on top takes to canTalk the plain message of a
\* user without the 'show' capability in a high traffic room
TalkInTraffic ==
    /\ PlainTalk
    /\ RoomSettings(Top.room).highTraffic
    /\ ~UserCan(Top.user, "show", Top.room)
    /\ ~RefusedFor("same message") /\ ~RefusedFor("banwords")
    /\ \A tag \in EarlierReasons : ~RefusedFor(tag)

\* C28 as stated: in a high traffic room canTalk rejects the message of a
\* user without the 'show' capability exactly when the message has fewer
\* than 2 letters
C28_RejectedIffFewerThanTwoLetters ==
    [][TalkInTraffic =>
          /\ TalkReturnsNull <=> Len(LettersOf(Top.message)) < 2
          /\ RefusedFor("high traffic") <=> Len(LettersOf(Top.message)) < 2]_vars

(***************************************************************************)
(* Properties of the ban-word pattern of a room (SpecBanwords)             *)
(***************************************************************************)
\* the step is canTalk coming to its ban-word checks on a plain message:
\* none of the checks before them has refused
BanwordsLookedAt ==
    /\ PlainTalk
    /\ \A tag \in EarlierReasons \ {"banned name"} : ~RefusedFor(tag)

\* C29: a ban-word check builds the pattern of the room from the word list
\* when the room holds none, and works with the pattern the room holds
\* otherwise, whatever the word list has become; a pattern once held is
\* given up only by being cleared, and no check clears it
C29_PatternBuiltOnceAndReused ==
    [][/\ BanwordsLookedAt =>
             /\ banwords[Top.room].regex.built
                   => banwords'[Top.room].regex = banwords[Top.room].regex
             /\ ~banwords[Top.room].regex.built
                   => banwords'[Top.room].regex = BanwordRegex(banwords[Top.room].words)
             /\ (/\ ~UserCan(Top.user, "mute", Top.room)
                 /\ BanwordTest(banwords'[Top.room].regex.words, Top.message))
                   => ~DeliveredToRoom
             /\ banwords'[Top.room].words = banwords[Top.room].words
       /\ \A room \in Rooms :
             (banwords[room].regex.built /\ banwords'[room].regex # banwords[room].regex)
                => (stack = <<>> /\ banwords'[room].regex = NoRegex)]_vars
\* a message has been refused in the lobby for a word of the pattern the
\* lobby still holds, after the word was taken off the lobby's list
C29_Witness ==
    /\ served = 2 /\ TopDone /\ Top.room = "lobby"
    /\ banwords["lobby"].words = {}
    /\ banwords["lobby"].regex = BanwordRegex({<<"b", "a", "d">>})
    /\ Top.message = <<"s", "o", " ", "b", "a", "d">>
    /\ \E i \in DOMAIN out : out[i].tag = "banwords"

(***************************************************************************)
(* Properties of the handler field of a descriptor (SpecResolve)           *)
(***************************************************************************)
\* C31 as stated: the handler of the descriptor that parseCommand returns
\* is absent or a handler function, whatever the table holds
C31_HandlerAbsentOrFunction ==
    (Resolution /\ ~rsOut.null)
        => rsOut.handler.kind \in {"undefined", "handler"}

(***************************************************************************)
(* Properties of the multi-line tester (SpecPattern)                       *)
(***************************************************************************)
\* the PM prefix that a line begins with, empty when it begins with none
OwnPrefix(line) == SubSeq(line, 1, PmPrefixEnd(line, 1))
\* the lines joined with line ends
RECURSIVE Joined(_)
Joined(lines) ==
    IF Len(lines) = 1 THEN lines[1]
    ELSE lines[1] \o <<"\n">> \o Joined(Tail(lines))
\* the lines with the PM prefix taken off every line after the first
Unprefixed(lines) ==
    [k \in DOMAIN lines |->
        IF k = 1 THEN lines[k]
        ELSE SubSeq(lines[k], Len(OwnPrefix(lines[k])) + 1, Len(lines[k]))]
\* test has been applied to a block of several lines whose first line
\* begins with a PM prefix, and what follows the prefix on that line
\* matches a registered pattern
PmBlockTested ==
    /\ ptIn.phase = "done"
    /\ Len(Lines(ptIn.text)) > 1
    /\ OwnPrefix(Lines(ptIn.text)[1]) # <<>>
    /\ TestCommand(SubSeq(Lines(ptIn.text)[1], Len(OwnPrefix(Lines(ptIn.text)[1])) + 1,
                          Len(Lines(ptIn.text)[1])))

Nesting(pieces) == SelectSeq(pieces, LAMBDA k : HtmlPieces[k].is \in {"open", "close"})
\* an opening tag followed at once by the closing tag of the same name
ClosedPairs(tags) ==
    {k \in 1..(Len(tags) - 1) :
        /\ HtmlPieces[tags[k]].is = "open" /\ HtmlPieces[tags[k + 1]].is = "close"
        /\ HtmlPieces[tags[k]].name = HtmlPieces[tags[k + 1]].name}
\* properly nested: taking closed pairs away, again and again, leaves nothing
RECURSIVE ProperlyNested(_)
ProperlyNested(tags) ==
    IF tags = <<>> THEN TRUE
    ELSE IF ClosedPairs(tags) = {} THEN FALSE
    ELSE ProperlyNested(SubSeq(tags, 1, SetMin(ClosedPairs(tags)) - 1)
                            \o SubSeq(tags, SetMin(ClosedPairs(tags)) + 2, Len(tags)))
NoIllegalTag(pieces) == \A k \in DOMAIN pieces : HtmlPieces[pieces[k]].is # "illegal"

\* C33: canHTML returns a result other than null only for a content whose
\* tags, comments and void or auto-close tags left aside, are properly
\* nested, and in which no illegal tag appears
C33_AcceptedOnlyIfNested ==
    (htIn.phase = "done" /\ htOut # RetNull)
        => (ProperlyNested(Nesting(htIn.pieces)) /\ NoIllegalTag(htIn.pieces))
\* a content with two tags nested in a third, a comment aside, has been
\* accepted
C33_Witness ==
    /\ htIn.phase = "done" /\ htOut = RetString(TextOf(htIn.pieces))
    /\ htIn.pieces = <<1, 3, 4, 2>>

(***************************************************************************)
(* Properties of the sub-invocations (SpecSub)                             *)
(***************************************************************************)
\* the step is parse(msg) in a handler: a child context is put on top
Spawns == stack # <<>> /\ Len(stack') = Len(stack) + 1
\* the command and broadcast state of a context
CommandState(f) ==
    <<f.cmd, f.fullCmd, f.cmdToken, f.target, f.handler, f.broadcasting,
      f.broadcastToRoom, f.broadcastMessage>>

\* C34: the child context of a sub-invocation has the user, room, PM
\* target and connection of its parent and a command and broadcast state
\* of its own, empty and not broadcasting; while the child and its own
\* children run, and when the child returns, the command and broadcast
\* state of the parent stays as it was when the child was created
C34_ChildFreshParentUntouched ==
    [][/\ Spawns =>
             /\ stack'[Len(stack')].user = stack'[Len(stack)].user
             /\ stack'[Len(stack')].room = stack'[Len(stack)].room
             /\ stack'[Len(stack')].pmTarget = stack'[Len(stack)].pmTarget
             /\ stack'[Len(stack')].connection = stack'[Len(stack)].connection
             /\ CommandState(stack'[Len(stack')])
                   = <<<<>>, <<>>, <<>>, <<>>, Undef, FALSE, TRUE, <<>>>>
       /\ \A k \in DOMAIN stack :
             (k < Len(stack) /\ k \in DOMAIN stack')
                => CommandState(stack'[k]) = CommandState(stack[k])]_vars
\* a broadcasting context has had a child, which was not broadcasting, and
\* is back on top, still broadcasting its command
C34_Witness ==
    /\ TopDone /\ Top.broadcasting /\ Top.cmd = <<"s", "t", "o", "n", "e">> /\ Top.cmdToken = <<"!">>
    /\ Top.via = "handler" /\ Top.did = "stone found"
    /\ Top.target = <<>>

(***************************************************************************)
(* Properties of a broadcast that is checked, awaited and then made        *)
(* (SpecAwait)                                                             *)
(***************************************************************************)
\* the step grants a broadcast in a room
GrantsNow == Len(granted') = Len(granted) + 1
Grant == granted'[Len(granted')]

\* C35 as stated: a broadcast is never granted in a room whose last
\* broadcast, made within the broadcast cooldown, has the same normalized
\* text, also when the handler waits for a deferred value between its
\* canBroadcast and its runBroadcast: no two identical broadcasts follow
\* each other within the cooldown
C35_NoIdenticalBroadcastInCooldown ==
    [][(GrantsNow /\ ~UserCan(Grant.user, "bypassall", NoRoom))
          => ~(/\ rooms[Grant.room].lastBroadcast = Grant.text
               /\ now - rooms[Grant.room].lastBroadcastTime <= BROADCAST_COOLDOWN)]_vars

(***************************************************************************)
(* Properties of a parse in which the handler throws (Spec)                *)
(***************************************************************************)
\* the step is a parse() in which the handler threw
Threw == Running /\ After.via \in {"crash", "ErrorMessage"}

\* C36 as stated: a parse() in which the handler throws delivers no chat
\* message, neither to the room nor to the PM target
C36_NothingDeliveredAfterThrow ==
    [][Threw => \A i \in DOMAIN Added : Added[i].kind \notin {"chat", "pm"}]_vars

(***************************************************************************)
(* Properties of the record of the last message (SpecReasons)              *)
(***************************************************************************)
\* C37 as stated: a call of canTalk that returns null leaves lastMessage
\* and lastMessageTime of every user as they were
C37_RejectionLeavesLastMessage == [][TalkReturnsNull => users' = users]_vars

(***************************************************************************)
(* Properties of messages to a room the sender is not in (Spec)            *)
(***************************************************************************)
\* parse() runs in a context whose user is not in its room
Outsider == stack # <<>> /\ Top.pc = "parse" /\ NotInRoom(Top)
\* the lines added to the output in this step
NewLines == SubSeq(out', Len(out) + 1, Len(out'))

\* C38: for a user who is not in the context's room, a room other than the
\* lobby makes parse show one popup and nothing else: no handler is invoked,
\* no chat message is delivered and parse returns; the lobby is dropped
\* from the context, which is processed as a roomless one (nothing is
\* posted to a room and the popup about the room is not shown)
C38_OutsiderBouncedOrRoomless ==
    [][Outsider =>
          IF Top.room # "lobby"
          THEN /\ Len(stack') = Len(stack)
               /\ After.pc = "done" /\ After.did = Top.did
               /\ After.ret = RetUndefined
               /\ out' = Append(out, Line("popup", "popup", "not in that room",
                                          Top.message))
               /\ users' = users /\ rooms' = rooms /\ said' = said
          ELSE /\ Len(stack') >= Len(stack)
               /\ After.room = NoRoom
               /\ rooms' = rooms
               /\ \A i \in DOMAIN NewLines :
                     /\ NewLines[i].tag # "not in that room"
                     /\ NewLines[i].kind # "chat"]_vars

\* a guest's command for the tech room, where he is not, was bounced with the
\* popup: the handler of '/stone' has not run
C38_Witness ==
    /\ TopDone /\ Top.via = "outside"
    /\ Top.message = <<"/", "s", "t", "o", "n", "e">> /\ Top.user = "guest" /\ Top.room = "tech"
    /\ Top.did = "none" /\ Len(out) = 1 /\ LastOut.kind = "popup"

(***************************************************************************)
(* Properties of a command symbol after leading whitespace (SpecEscape)    *)
(***************************************************************************)
\* the message starts with whitespace and its first other character is a
\* command symbol
SymbolAfterSpace(message) ==
    /\ message # <<>> /\ message[1] \in Whitespace
    /\ Trim(message) # <<>> /\ Trim(message)[1] \in {"/", "!"}
\* the message without the whitespace around it, with a second '/' in front
\* of a leading '/'
AsChatText(message) ==
    IF Trim(message)[1] = "/" THEN <<"/">> \o Trim(message) ELSE Trim(message)

DestroyAllCompletes ==
    modlog.all = "waiting" /\ modlog'.all = "done" /\ ~modlog.touched

\* C40 as stated: when destroyAll() has completed, every room id that had
\* been initialized has the stream entry null, and a write to it throws
\* the uninitialized-stream error
C40_DestroyAllLeavesNoOpenStream ==
    [][DestroyAllCompletes =>
          \A roomid \in modlog.initialized :
              /\ MapGet(modlog'.streams, roomid) = NullStream
              /\ WriteThrows(modlog', roomid)]_vars
====
